---------------------------- MODULE Spec2Model ----------------------------
(***************************************************************************)
(* Supervision engine of dns-tunnel: the resolver pool, the tunnel process *)
(* manager, the health monitor and the orchestrator (internal/app).        *)
(*                                                                         *)
(* The specifications share the variables:                                 *)
(*   SpecPool     - arbitrary call sequences on resolver.Pool              *)
(*   SpecMonitor  - arbitrary check outcomes fed to health.Monitor         *)
(*   SpecManager  - arbitrary Connect / Disconnect calls on tunnel.Manager *)
(*   Spec         - the running application: App.Run, the event loop,      *)
(*                  Manager.Connect, the child processes, Monitor.check    *)
(*                  and the helper goroutines, interleaved                 *)
(*   SpecShutdown - the application with the shutdown signal               *)
(*   SpecS2, SpecS4, SpecDeadPath - the application in the environment of  *)
(*                  one scenario                                           *)
(* Time stamps (LastCheck, BlockedAt) and log output are not modelled.     *)
(***************************************************************************)
EXTENDS Integers, Sequences, FiniteSets, TLC

\* ------------------------------------------------------------------ bounds
\* Candidate resolver addresses are 1..NumAddrs (1 = "A", 2 = "B", ...).
NumAddrs == 2
\* Largest latency value a probe reports; 0 is the zero Duration of a fresh record.
MaxLatency == 1
\* Cap on Resolver.FailCount in the call sequences of SpecPool.
MaxFailCount == 3
\* Value at which Resolver.FailCount saturates in the running application.
MaxRunFails == 0
\* Largest fail_threshold / recovery_threshold explored by SpecMonitor.
MaxThreshold == 3
\* How far Monitor.failCount may grow above fail_threshold in the explored space.
MaxExtraFails == 1
\* Number of child processes whose exit has not yet been reported, plus one.
MaxChildren == 2
\* Largest config.Scanner.ConcurrentScans explored by SpecScan.
MaxWorkers == 2
\* Largest number of candidate addresses handed to one Scanner.Scan call.
MaxCandidates == 3

\* Largest number of lines of a country-IP feed.
MaxLines == 3
\* Largest config.Scanner.MaxCandidates explored by SpecFeed.
MaxCap == 2

\* Largest pool explored by SpecRotation.
MaxPoolSize == 4

Addrs == 1..NumAddrs
NoAddr == 0

\* --------------------------------------------------------- resolver.Status
StatusUnknown == "unknown"
StatusHealthy == "healthy"
StatusDegraded == "degraded"
StatusBlocked == "blocked"

\* MarkFailed degrades a resolver once FailCount reaches this value.
DegradeAt == 3

VARIABLES
    pool,          \* resolver.Pool: [resolvers: Seq(Resolver), current: Nat]
    ret,           \* address returned by the last pool call (NoAddr = nil / none)
    marked,        \* addresses MarkBlocked acted on since the last Clear
    mon,           \* health.Monitor: status, failCount, the two event channels
                   \* and the number of send statements executed on each
    failThreshold,      \* config.Health.FailThreshold
    recoveryThreshold,  \* config.Health.RecoveryThreshold
    hist,          \* check outcomes since the Monitor was last healthy with c = 0
    goos,          \* runtime.GOOS of the build: "windows" or "unix"
    cfg,           \* config: Scanner.Enabled, BackgroundInterval > 0, Cloudflare
    mgr,           \* tunnel.Manager: cmd, cancel, resolverIP, disconnectCh
    child,         \* the spawned dnstt-client processes, by slot
    conn,          \* the caller of the Manager.Connect in progress, which holds
                   \* Manager.mu: "main", "orch" or "none"
    main,          \* the main goroutine: App.Run, waitForShutdown, App.Shutdown
    orch,          \* the goroutine of App.handleDisconnects
    monitor,       \* the goroutine of Monitor.Start
    helpers,       \* the background scanner and TXT refresh goroutines
    ctxDone,       \* App.ctx is cancelled
    scan,          \* one call of Scanner.Scan: its workers, semaphore and results
    ready,         \* the readiness loop of one Manager.Connect call, poll by poll
    snap,          \* the slice a reader got from Pool.All, and what it held then
    probe,         \* one call of Monitor.testSOCKS5Connection: the proxy's
                   \* behaviour and what the call wrote and returned
    feed,          \* one call of Scanner.parseCIDRList: the feed and the result
    dns            \* one call of Scanner.testResolver: the exchange with the
                   \* resolver and the verdict

\* ------------------------------------------------------------ resolver.Pool
NewResolver(a) ==
    [addr |-> a, status |-> StatusUnknown, failCount |-> 0, latency |-> 0]

NewPool == [resolvers |-> <<>>, current |-> 0]

IndexOf(rs, a) ==
    IF \E i \in 1..Len(rs) : rs[i].addr = a
    THEN CHOOSE i \in 1..Len(rs) :
             /\ rs[i].addr = a
             /\ \A j \in 1..(i - 1) : rs[j].addr # a
    ELSE 0

HasAddr(p, a) == IndexOf(p.resolvers, a) # 0

\* An Add without the existence check.
PoolAddAlways(p, a) == [p EXCEPT !.resolvers = Append(@, NewResolver(a))]

\* Add: no-op when the address is present, else append a StatusUnknown record.
PoolAdd(p, a) ==
    IF HasAddr(p, a)
    THEN p
    ELSE [p EXCEPT !.resolvers = Append(@, NewResolver(a))]

\* Get: nil on an empty pool, else the resolver at the cursor, whatever its status.
PoolGet(p) ==
    IF Len(p.resolvers) = 0
    THEN NoAddr
    ELSE p.resolvers[p.current + 1].addr

\* The loop of Next: step the cursor; stop after a full circle or at a
\* resolver that is not blocked.
RECURSIVE NextScan(_, _, _)
NextScan(rs, cur, startIdx) ==
    LET c == (cur + 1) % Len(rs) IN
    IF c = startIdx
    THEN c
    ELSE IF rs[c + 1].status # StatusBlocked
         THEN c
         ELSE NextScan(rs, c, startIdx)

\* A Next that steps to the following resolver whatever its status.
NextCursorNoSkip(p) == (p.current + 1) % Len(p.resolvers)

NextCursor(p) == NextScan(p.resolvers, p.current, p.current)

\* Next: the pool after the call (cursor moved); the result is PoolGet of it.
PoolNext(p) ==
    IF Len(p.resolvers) = 0
    THEN p
    ELSE [p EXCEPT !.current = NextCursor(p)]

BlockRecord(r) == [r EXCEPT !.status = StatusBlocked]

MarkBlocked(p, a) ==
    LET i == IndexOf(p.resolvers, a) IN
    IF i = 0 THEN p
    ELSE [p EXCEPT !.resolvers[i] = BlockRecord(@)]

HealthyRecord(r, l) ==
    [r EXCEPT !.status = StatusHealthy, !.failCount = 0, !.latency = l]

MarkHealthy(p, a, l) ==
    LET i == IndexOf(p.resolvers, a) IN
    IF i = 0 THEN p
    ELSE [p EXCEPT !.resolvers[i] = HealthyRecord(@, l)]

\* A MarkFailed that counts the failure and leaves the status alone.
FailedRecordCountsOnly(r) == [r EXCEPT !.failCount = @ + 1]

\* A MarkFailed that degrades one failure later.
FailedRecordLate(r) ==
    LET n == r.failCount + 1 IN
    [r EXCEPT !.failCount = n,
              !.status = IF n >= DegradeAt + 1 THEN StatusDegraded ELSE @]

\* MarkFailed on one record: count the failure, degrade at DegradeAt.
FailedRecord(r) ==
    LET n == r.failCount + 1 IN
    [r EXCEPT !.failCount = n,
              !.status = IF n >= DegradeAt THEN StatusDegraded ELSE @]

MarkFailed(p, a) ==
    LET i == IndexOf(p.resolvers, a) IN
    IF i = 0 THEN p
    ELSE [p EXCEPT !.resolvers[i] = FailedRecord(@)]

IsExhausted(p) ==
    \A i \in 1..Len(p.resolvers) : p.resolvers[i].status = StatusBlocked

Count(p) == Len(p.resolvers)

CountHealthy(p) ==
    Cardinality({i \in 1..Len(p.resolvers) : p.resolvers[i].status = StatusHealthy})

Clear(p) == NewPool

\* Pool.All: a new slice holding the pool's *Resolver pointers.  refs are the
\* objects the slice points to (an object is named by its address: between
\* two Clear calls the pool holds one object per address); taken is what
\* those objects held when the slice was made.
All(p) ==
    [refs |-> [i \in 1..Len(p.resolvers) |-> p.resolvers[i].addr],
     taken |-> p.resolvers]

NoSnap == All(NewPool)

\* What a reader of the slice sees now: the fields of the pointed-to objects.
Deref(sn, p) ==
    [i \in 1..Len(sn.refs) |-> p.resolvers[IndexOf(p.resolvers, sn.refs[i])]]

StatusOf(p, a) ==
    IF HasAddr(p, a) THEN p.resolvers[IndexOf(p.resolvers, a)].status ELSE "absent"

CanFail(p, a) ==
    HasAddr(p, a) => p.resolvers[IndexOf(p.resolvers, a)].failCount < MaxFailCount

\* ----------------------------------------------------------- health.Monitor
MonHealthy == "healthy"
MonDegraded == "degraded"
MonUnhealthy == "unhealthy"

\* Capacity of the event channels (make(chan struct{}, 1)).
ChanCap == 1

\* onUnhealthy / onHealthy hold the number of buffered events; sentUnhealthy /
\* sentHealthy count the executions of the send statements (history).
NewMonitor ==
    [status |-> MonHealthy, failCount |-> 0,
     onUnhealthy |-> 0, onHealthy |-> 0,
     sentUnhealthy |-> 0, sentHealthy |-> 0]

\* A send that queues every event.
TrySendQueues(ch) == ch + 1

\* select { case ch <- struct{}{}: default: } on a channel of capacity ChanCap.
TrySend(ch) == IF ch < ChanCap THEN ch + 1 ELSE ch

\* A handleFailure that sends at every failure at or above the threshold.
HandleFailureNoEdge(m, ft) ==
    LET c == m.failCount + 1 IN
    IF c >= ft
    THEN [m EXCEPT !.failCount = c, !.status = MonUnhealthy,
                   !.onUnhealthy = TrySend(@), !.sentUnhealthy = @ + 1]
    ELSE IF c > 0 /\ m.status = MonHealthy
         THEN [m EXCEPT !.failCount = c, !.status = MonDegraded]
         ELSE [m EXCEPT !.failCount = c]

\* A handleFailure that trips only a healthy Monitor.
HandleFailureFromHealthy(m, ft) ==
    LET c == m.failCount + 1 IN
    IF c >= ft
    THEN IF m.status = MonHealthy
         THEN [m EXCEPT !.failCount = c, !.status = MonUnhealthy,
                        !.onUnhealthy = TrySend(@), !.sentUnhealthy = @ + 1]
         ELSE [m EXCEPT !.failCount = c]
    ELSE IF c > 0 /\ m.status = MonHealthy
         THEN [m EXCEPT !.failCount = c, !.status = MonDegraded]
         ELSE [m EXCEPT !.failCount = c]

\* handleFailure: count, trip to unhealthy once on reaching the threshold.
HandleFailure(m, ft) ==
    LET c == m.failCount + 1 IN
    IF c >= ft
    THEN IF m.status # MonUnhealthy
         THEN [m EXCEPT !.failCount = c, !.status = MonUnhealthy,
                        !.onUnhealthy = TrySend(@), !.sentUnhealthy = @ + 1]
         ELSE [m EXCEPT !.failCount = c]
    ELSE IF c > 0 /\ m.status = MonHealthy
         THEN [m EXCEPT !.failCount = c, !.status = MonDegraded]
         ELSE [m EXCEPT !.failCount = c]

\* A handleSuccess that recovers as soon as the counter is back at 0.
HandleSuccessAtZero(m, rt) ==
    IF m.status = MonUnhealthy \/ m.status = MonDegraded
    THEN LET c == m.failCount - 1 IN
         IF c <= 0
         THEN [m EXCEPT !.status = MonHealthy, !.failCount = 0,
                        !.onHealthy = TrySend(@), !.sentHealthy = @ + 1]
         ELSE [m EXCEPT !.failCount = c]
    ELSE [m EXCEPT !.failCount = 0]

\* A handleSuccess that restarts the count of a degraded Monitor.
HandleSuccessRestarts(m, rt) ==
    IF m.status = MonUnhealthy
    THEN LET c == m.failCount - 1 IN
         IF c <= -rt
         THEN [m EXCEPT !.status = MonHealthy, !.failCount = 0,
                        !.onHealthy = TrySend(@), !.sentHealthy = @ + 1]
         ELSE [m EXCEPT !.failCount = c]
    ELSE [m EXCEPT !.failCount = 0]

\* A handleSuccess that does not count the successes of a recovery.
HandleSuccessNoCount(m, rt) ==
    IF m.status = MonUnhealthy \/ m.status = MonDegraded
    THEN IF m.failCount <= -rt
         THEN [m EXCEPT !.status = MonHealthy, !.failCount = 0,
                        !.onHealthy = TrySend(@), !.sentHealthy = @ + 1]
         ELSE m
    ELSE [m EXCEPT !.failCount = 0]

\* A handleSuccess that recovers one success late (c < -recovery_threshold).
HandleSuccessLate(m, rt) ==
    IF m.status = MonUnhealthy \/ m.status = MonDegraded
    THEN LET c == m.failCount - 1 IN
         IF c < -rt
         THEN [m EXCEPT !.status = MonHealthy, !.failCount = 0,
                        !.onHealthy = TrySend(@), !.sentHealthy = @ + 1]
         ELSE [m EXCEPT !.failCount = c]
    ELSE [m EXCEPT !.failCount = 0]

\* handleSuccess: count down while not healthy; recover at -recovery_threshold.
HandleSuccess(m, rt) ==
    IF m.status = MonUnhealthy \/ m.status = MonDegraded
    THEN LET c == m.failCount - 1 IN
         IF c <= -rt
         THEN [m EXCEPT !.status = MonHealthy, !.failCount = 0,
                        !.onHealthy = TrySend(@), !.sentHealthy = @ + 1]
         ELSE [m EXCEPT !.failCount = c]
    ELSE [m EXCEPT !.failCount = 0]

\* Monitor.Reset (called by App.handleDisconnect): status healthy, counter 0.
MonitorReset(m) == [m EXCEPT !.status = MonHealthy, !.failCount = 0]

\* <-m.onUnhealthy in the event loop.
ReceiveUnhealthy(m) == [m EXCEPT !.onUnhealthy = @ - 1]

ClearSent(m) == [m EXCEPT !.sentUnhealthy = 0, !.sentHealthy = 0]

\* config.DefaultConfig: FailThreshold 2, RecoveryThreshold 1.
DefaultFailThreshold == 2
DefaultRecoveryThreshold == 1

\* ------------------------------------------- Monitor.testSOCKS5Connection
\* Bytes of the SOCKS5 exchange: the protocol version, the "no acceptable
\* methods" method, and the "succeeded" reply code.
SocksVersion == 5
NoAcceptableMethods == 255
ReplySucceeded == 0

\* What the proxy does during one probe: whether the dial is accepted,
\* whether each write goes through, and the first two bytes of each reply
\* (<<>>: the read fails - EOF, reset or deadline).
MethodReplies ==
    {<<>>} \cup ({SocksVersion, SocksVersion - 1} \X {0, NoAcceptableMethods})

ConnectReplies ==
    {<<>>} \cup ({SocksVersion, SocksVersion - 1} \X {ReplySucceeded, ReplySucceeded + 1})

ProxyBehaviours ==
    [dial : BOOLEAN, greetSent : BOOLEAN, reply : MethodReplies,
     connectSent : BOOLEAN, connectReply : ConnectReplies]

Failed(w) == [ok |-> FALSE, wrote |-> w]

\* testSOCKS5Connection: dial, greeting 05 01 00, method reply, CONNECT to
\* 8.8.8.8:53, connect reply.  wrote lists the messages written to the
\* proxy; ok is "the error returned is nil".
TestSOCKS5Connection(b) ==
    IF ~b.dial THEN Failed(<<>>)
    ELSE IF ~b.greetSent THEN Failed(<<>>)
    ELSE IF b.reply = <<>> THEN Failed(<<"greeting">>)
    ELSE IF b.reply[1] # SocksVersion THEN Failed(<<"greeting">>)
    ELSE IF b.reply[2] = NoAcceptableMethods THEN Failed(<<"greeting">>)
    ELSE IF ~b.connectSent THEN Failed(<<"greeting">>)
    ELSE IF b.connectReply = <<>> THEN Failed(<<"greeting", "connect">>)
    ELSE IF b.connectReply[1] # SocksVersion THEN Failed(<<"greeting", "connect">>)
    ELSE IF b.connectReply[2] # ReplySucceeded THEN Failed(<<"greeting", "connect">>)
    ELSE [ok |-> TRUE, wrote |-> <<"greeting", "connect">>]

NoOut == [ok |-> FALSE, wrote |-> <<"none">>]

NewProbe(b) == [in |-> b, out |-> NoOut]

NoProbe == NewProbe([dial |-> FALSE, greetSent |-> FALSE, reply |-> <<>>,
                     connectSent |-> FALSE, connectReply |-> <<>>])

\* --------------------------------------------------- Scanner.parseCIDRList
\* A line of the feed after TrimSpace: blank, a "#" comment, a CIDR block, a
\* plain IP address, or anything else ("junk").  fam is 4 or 6; an IPv4
\* address is its four bytes; an IPv6 address is kept as its hextets.
Line(k, f, a, n) == [kind |-> k, fam |-> f, ip |-> a, bits |-> n]

Blank == Line("blank", 0, <<>>, 0)
Comment == Line("comment", 0, <<>>, 0)
Junk == Line("junk", 0, <<>>, 0)
Cidr(f, a, n) == Line("cidr", f, a, n)
Plain(f, a) == Line("ip", f, a, 0)

\* 2001:db8::
DocV6 == <<8193, 3512, 0, 0, 0, 0, 0, 0>>

\* The lines the feeds are made of: those of S6, a CIDR written with host
\* bits, one whose first host carries into the next byte, and plain addresses
\* of both families.
FeedLines ==
    {Blank, Comment, Junk,
     Cidr(4, <<2, 144, 0, 0>>, 14),
     Cidr(4, <<5, 0, 0, 0>>, 8),
     Cidr(4, <<10, 1, 2, 3>>, 16),
     Cidr(4, <<5, 0, 0, 255>>, 32),
     Cidr(6, DocV6, 32),
     Plain(4, <<8, 8, 8, 8>>),
     Plain(6, [DocV6 EXCEPT ![8] = 1])}

\* Values of a byte (result[i]++ wraps at 256).
ByteValues == 256
\* Port appended to every candidate (ip + ":53").
DnsPort == 53

Max(a, b) == IF a > b THEN a ELSE b

\* net.ParseCIDR: the network address, byte by byte (the IP under the mask).
Network(a, n) ==
    [i \in 1..Len(a) |->
        LET keep == Max(0, IF n - 8 * (i - 1) < 8 THEN n - 8 * (i - 1) ELSE 8)
        IN  a[i] - (a[i] % (2 ^ (8 - keep)))]

\* incrementIP: add one from the last byte, carrying; <<>> (nil) on overflow.
RECURSIVE IncrementFrom(_, _)
IncrementFrom(a, i) ==
    IF i = 0
    THEN <<>>
    ELSE LET v == (a[i] + 1) % ByteValues IN
         IF v # 0
         THEN [a EXCEPT ![i] = v]
         ELSE IncrementFrom([a EXCEPT ![i] = 0], i - 1)

IncrementIP(a) == IncrementFrom(a, Len(a))

\* A host as printed by IP.String: the family and the address; NoHost is "".
Host(f, a) == [fam |-> f, ip |-> a]

NoHost == Host(0, <<>>)

\* extractFirstIP: for a CIDR the first host of an IPv4 network ("" for
\* IPv6 and on overflow); otherwise whatever net.ParseIP accepts, as it is.
ExtractFirstIP(l) ==
    IF l.kind = "cidr"
    THEN IF l.fam # 4
         THEN NoHost
         ELSE LET a == IncrementIP(Network(l.ip, l.bits)) IN
              IF a = <<>> THEN NoHost ELSE Host(4, a)
    ELSE IF l.kind = "ip"
         THEN Host(l.fam, l.ip)
         ELSE NoHost

Candidate(h) == [host |-> h, port |-> DnsPort]

\* The loop of parseCIDRList from the lines still unread, with the
\* candidates so far: skip blanks and comments, append ip + ":53" when
\* extractFirstIP returned one, stop when MaxCandidates (if set) is reached.
RECURSIVE ParseFrom(_, _, _)
ParseFrom(lines, max, candidates) ==
    IF lines = <<>>
    THEN candidates
    ELSE LET l == Head(lines) IN
         IF l.kind \in {"blank", "comment"}
         THEN ParseFrom(Tail(lines), max, candidates)
         ELSE LET h == ExtractFirstIP(l)
                  c == IF h # NoHost THEN Append(candidates, Candidate(h)) ELSE candidates
              IN  IF max > 0 /\ Len(c) >= max
                  THEN c
                  ELSE ParseFrom(Tail(lines), max, c)

ParseCIDRList(lines, max) == ParseFrom(lines, max, <<>>)

\* One call: the feed body, config.Scanner.MaxCandidates, and the result.
NewFeed(lines, max) == [lines |-> lines, max |-> max, done |-> FALSE, out |-> <<>>]

NoFeed == NewFeed(<<>>, 0)

cfgVars == <<failThreshold, recoveryThreshold>>
poolVars == <<pool, ret, marked>>
monVars == <<mon, hist>>
sysVars == <<goos, cfg, mgr, child, conn, main, orch, monitor, helpers, ctxDone, scan,
             ready, snap, probe, feed, dns>>
vars == <<pool, ret, marked, mon, failThreshold, recoveryThreshold, hist,
          goos, cfg, mgr, child, conn, main, orch, monitor, helpers, ctxDone, scan,
          ready, snap, probe, feed, dns>>

\* ----------------------------------------------------------- tunnel.Manager
NoCmd == 0
Pids == 1..MaxChildren

\* A child slot is "free" (no process, or its exit was reported by the wait
\* goroutine of Connect), "alive" (running; whether its SOCKS5 listener
\* answers is decided when it is dialled) or "dead" (exited, cmd.Wait not yet
\* returned).
NewManager ==
    [cmd |-> NoCmd, cancel |-> FALSE, resolverIP |-> NoAddr, disconnectCh |-> 0]

NoChildren == [p \in Pids |-> "free"]

Alive(ch, p) == ch[p] = "alive"

AlivePids(ch) == {p \in Pids : Alive(ch, p)}

\* checkProcessAlive: on windows the exit code probe; elsewhere
\* process.Signal(nil), which os.Process rejects for every pid ("unsupported
\* signal type": nil is no syscall.Signal), so the result is false.
CheckProcessAlive(os, ch, p) ==
    IF os = "windows" THEN Alive(ch, p) ELSE FALSE

\* isProcessRunning: cmd set, ProcessState still nil, and the process alive.
IsProcessRunning(os, m, ch) ==
    /\ m.cmd # NoCmd
    /\ ch[m.cmd] # "free"
    /\ CheckProcessAlive(os, ch, m.cmd)

Cleared(m) == [m EXCEPT !.cancel = FALSE, !.cmd = NoCmd, !.resolverIP = NoAddr]

CancelOnly(m) == [m EXCEPT !.cancel = FALSE]

Killed(ch, p) == [ch EXCEPT ![p] = "dead"]

\* stopInternal: the (manager, children) pairs it can leave behind.  cancel()
\* and terminateProcess both end a live child.  terminateProcess fails, and
\* stopInternal returns before clearing cmd and resolverIP, when the process
\* has already finished: always for a reaped child, for an exited one on
\* windows, and for a live one when the kill issued by cancel() wins the race.
StopInternal(os, m, ch) ==
    IF m.cmd = NoCmd
    THEN {[mgr |-> CancelOnly(m), child |-> ch]}
    ELSE IF Alive(ch, m.cmd)
         THEN {[mgr |-> Cleared(m), child |-> Killed(ch, m.cmd)]}
              \cup (IF m.cancel
                    THEN {[mgr |-> CancelOnly(m), child |-> Killed(ch, m.cmd)]}
                    ELSE {})
         ELSE IF ch[m.cmd] = "dead" /\ os # "windows"
              THEN {[mgr |-> Cleared(m), child |-> ch]}
              ELSE {[mgr |-> CancelOnly(m), child |-> ch]}

\* Number of readiness polls of Connect (for i := 0; i < 20; i++).
ReadinessPolls == 20

\* The readiness loop of the Connect call made last: polls the number of
\* polls done, port the child whose SOCKS5 listener holds the local port
\* (NoCmd: none), result what Connect returned ("none": no call yet,
\* "pending": in the loop).  spawned, sawDead and sawOpen record what was the
\* case at the polls: cmd.Start succeeded, the child of this call had really
\* exited at a poll, a dial was accepted.
NewReady ==
    [polls |-> 0, port |-> NoCmd, result |-> "none",
     spawned |-> FALSE, sawDead |-> FALSE, sawOpen |-> FALSE]

FreePid(ch) == CHOOSE p \in Pids : ch[p] = "free" /\ \A q \in 1..(p - 1) : ch[q] # "free"

\* ------------------------------------------------------------------ scanner
\* A scan reports its working candidates in completion order; the collector
\* of Scanner.Scan applies Add and MarkHealthy to each.
RECURSIVE ApplyScan(_, _, _)
ApplyScan(p, found, l) ==
    IF found = <<>>
    THEN p
    ELSE ApplyScan(MarkHealthy(PoolAdd(p, Head(found)), Head(found), l), Tail(found), l)

RECURSIVE AddAll(_, _)
AddAll(p, list) ==
    IF list = <<>> THEN p ELSE AddAll(PoolAdd(p, Head(list)), Tail(list))

\* Sequences of distinct candidate addresses.
Orders ==
    {q \in UNION {[1..n -> Addrs] : n \in 0..NumAddrs} :
        \A i, j \in 1..Len(q) : i # j => q[i] # q[j]}

\* Scanner.Scan(ctx, addresses, type) with ConcurrentScans = w: one goroutine
\* per address, pc[i] its position; sem the number of slots of the semaphore
\* channel in use; resultCh the buffered results, in the order they were sent;
\* results the slice the collector builds; count what ScanFromSources makes of
\* it.  probes[i] counts the testResolver calls of worker i and outcome[i]
\* records how the worker ended (history).
NewScan(w, addresses) ==
    [w |-> w, addrs |-> addresses,
     pc |-> [i \in 1..Len(addresses) |-> "wait"],
     sem |-> 0, resultCh |-> <<>>, closed |-> FALSE, returned |-> FALSE,
     results |-> <<>>, count |-> 0,
     probes |-> [i \in 1..Len(addresses) |-> 0],
     outcome |-> [i \in 1..Len(addresses) |-> "none"]]

\* A collector that adds every candidate, working or not.
CollectAlways(p, r) == ApplyScan(p, <<r.addr>>, r.latency)

\* The body of the collector's loop: Add and MarkHealthy for a working result.
Collect(p, r) == IF r.working THEN ApplyScan(p, <<r.addr>>, r.latency) ELSE p

\* The counting loop of ScanFromSources.
RECURSIVE Working(_)
Working(results) ==
    IF results = <<>> THEN 0
    ELSE (IF Head(results).working THEN 1 ELSE 0) + Working(Tail(results))

\* No Scan call in progress.
NoScan == NewScan(0, <<>>)

\* config.DefaultConfig: Scanner.MinResolvers.
DefaultMinResolvers == 3

\* The counters saturate in the running system (Spec) so that the state space
\* stays finite while checks keep failing.
Min(a, b) == IF a < b THEN a ELSE b

CapFails(p) ==
    [p EXCEPT !.resolvers =
        [i \in 1..Len(p.resolvers) |->
            [p.resolvers[i] EXCEPT !.failCount = Min(@, MaxRunFails)]]]

CapMon(m) ==
    ClearSent([m EXCEPT !.failCount = Min(@, failThreshold + MaxExtraFails)])

\* ------------------------------------------------- the resolver probes
\* One exchange with a candidate resolver, as the prober sees it.  fate is
\* how far the exchange gets: "dial" (the dial or the HTTP request fails),
\* "write" (sending the query fails), "read" (nothing comes back before the
\* deadline, or the read fails) or "reply".  A reply has sent bytes of DNS
\* message whose byte 2 is b2 (QR, opcode, AA, TC, RD) and byte 3 is b3 (RA,
\* Z, RCODE) and which carries answers answer records; over HTTPS it comes
\* with an HTTP status, over TLS behind a length prefix that declares
\* declared bytes.
DnsHeaderLen == 12
QRBit == 128
UdpBufLen == 512
DoHBodyLimit == 4096
MaxDoTLen == 4096
HttpStatusOK == 200

Transports == {"udp", "doh", "dot"}
Fates == {"dial", "write", "read", "reply"}
HttpStatuses == {HttpStatusOK, 404}
MessageLens == {0, DnsHeaderLen - 1, DnsHeaderLen, DnsHeaderLen + 1, MaxDoTLen, MaxDoTLen + 1}
FlagBytes == {0, 1, QRBit, QRBit + 1}
\* NOERROR, NXDOMAIN, and REFUSED with RA set.
RcodeBytes == {0, 3, QRBit + 5}

Exchanges ==
    {x \in [transport : Transports, addr : {"", "resolver"}, fate : Fates,
             status : HttpStatuses, declared : MessageLens, sent : MessageLens,
             b2 : FlagBytes, b3 : RcodeBytes, answers : 0..1] :
        /\ x.addr = "" => x.fate = "dial"
        /\ x.transport = "doh" => x.fate # "write"
        \* a reply to a query without EDNS fits the UDP limit of RFC 1035
        /\ x.transport = "udp" => x.sent <= UdpBufLen}

\* A flag test that also wants RCODE = NOERROR.
NotACleanResponse(x) == (x.b2 \div QRBit) % 2 = 0 \/ x.b3 % 16 # 0

\* response[2]&0x80 == 0
NotAResponse(x) == (x.b2 \div QRBit) % 2 = 0

\* testUDPResolver: one Read into a buffer of UdpBufLen bytes.
TestUDPResolver(x) ==
    IF x.fate # "reply" THEN "error"
    ELSE LET n == Min(x.sent, UdpBufLen) IN
         IF n < DnsHeaderLen THEN "error"
         ELSE IF NotAResponse(x) THEN "error" ELSE "ok"

\* testDoHResolver: POST, status 200, at most DoHBodyLimit bytes of body.
TestDoHResolver(x) ==
    IF x.addr = "" THEN "error"
    ELSE IF x.fate # "reply" THEN "error"
    ELSE IF x.status # HttpStatusOK THEN "error"
    ELSE LET n == Min(x.sent, DoHBodyLimit) IN
         IF n < DnsHeaderLen THEN "error"
         ELSE IF NotAResponse(x) THEN "error" ELSE "ok"

\* testDoTResolver: the length prefix, then exactly that many bytes.
TestDoTResolver(x) ==
    IF x.addr = "" THEN "error"
    ELSE IF x.fate # "reply" THEN "error"
    ELSE IF x.declared < DnsHeaderLen \/ x.declared > MaxDoTLen THEN "error"
    ELSE IF x.sent < x.declared THEN "error"
    ELSE IF NotAResponse(x) THEN "error" ELSE "ok"

\* testResolver: the switch on the resolver type.
TestResolver(x) ==
    CASE x.transport = "udp" -> TestUDPResolver(x)
      [] x.transport = "doh" -> TestDoHResolver(x)
      [] x.transport = "dot" -> TestDoTResolver(x)

NewDns(x) == [in |-> x, out |-> "none"]

NoDns ==
    NewDns([transport |-> "udp", addr |-> "", fate |-> "dial", status |-> HttpStatusOK,
            declared |-> 0, sent |-> 0, b2 |-> 0, b3 |-> 0, answers |-> 0])

\* ===================================================== SpecPool: the Pool API
Idle ==
    /\ goos = "windows"
    /\ cfg = [scanner |-> TRUE, background |-> FALSE, cloudflare |-> FALSE]
    /\ mgr = NewManager
    /\ child = NoChildren
    /\ conn = "none"
    /\ main = "start"
    /\ orch = [pc |-> "off", next |-> NoAddr, retry |-> FALSE, inFlight |-> 0]
    /\ monitor = [pc |-> "off", r |-> NoAddr]
    /\ helpers = "off"
    /\ ctxDone = FALSE
    /\ scan = NoScan
    /\ ready = NewReady
    /\ snap = NoSnap
    /\ probe = NoProbe
    /\ feed = NoFeed
    /\ dns = NoDns

InitPool ==
    /\ Idle
    /\ pool = NewPool
    /\ ret = NoAddr
    /\ marked = {}
    /\ mon = NewMonitor
    /\ hist = <<>>
    /\ failThreshold = DefaultFailThreshold
    /\ recoveryThreshold = DefaultRecoveryThreshold

PAdd(a) ==
    /\ pool' = PoolAdd(pool, a)
    /\ ret' = NoAddr
    /\ UNCHANGED <<marked, monVars, cfgVars, sysVars>>

PGet ==
    /\ ret' = PoolGet(pool)
    /\ UNCHANGED <<pool, marked, monVars, cfgVars, sysVars>>

PNext ==
    /\ pool' = PoolNext(pool)
    /\ ret' = PoolGet(pool')
    /\ UNCHANGED <<marked, monVars, cfgVars, sysVars>>

PMarkBlocked(a) ==
    /\ pool' = MarkBlocked(pool, a)
    /\ marked' = IF HasAddr(pool, a) THEN marked \cup {a} ELSE marked
    /\ ret' = NoAddr
    /\ UNCHANGED <<monVars, cfgVars, sysVars>>

PMarkHealthy(a, l) ==
    /\ pool' = MarkHealthy(pool, a, l)
    /\ ret' = NoAddr
    /\ UNCHANGED <<marked, monVars, cfgVars, sysVars>>

PMarkFailed(a) ==
    /\ CanFail(pool, a)
    /\ pool' = MarkFailed(pool, a)
    /\ ret' = NoAddr
    /\ UNCHANGED <<marked, monVars, cfgVars, sysVars>>

PClear ==
    /\ pool' = Clear(pool)
    /\ marked' = {}
    /\ ret' = NoAddr
    /\ UNCHANGED <<monVars, cfgVars, sysVars>>

PAddAny == \E a \in Addrs : PAdd(a)
PMarkBlockedAny == \E a \in Addrs : PMarkBlocked(a)
PMarkHealthyAny == \E a \in Addrs, l \in 1..MaxLatency : PMarkHealthy(a, l)
PMarkFailedAny == \E a \in Addrs : PMarkFailed(a)

NextPool ==
    \/ PAddAny
    \/ PGet
    \/ PNext
    \/ PMarkBlockedAny
    \/ PMarkHealthyAny
    \/ PMarkFailedAny
    \/ PClear

SpecPool == InitPool /\ [][NextPool]_vars

\* ================== SpecSnapshot: the Pool API with a reader of Pool.All
\* Add and the mark calls of SpecPool, and a reader (the API server) that
\* takes a snapshot with All and keeps it while the pool is mutated.
PAll ==
    /\ snap' = All(pool)
    /\ UNCHANGED <<poolVars, monVars, cfgVars, goos, cfg, mgr, child, conn, main,
                   orch, monitor, helpers, ctxDone, scan, ready, probe, feed, dns>>

NextSnapshot ==
    \/ PAddAny
    \/ PMarkBlockedAny
    \/ PMarkHealthyAny
    \/ PMarkFailedAny
    \/ PAll

SpecSnapshot == InitPool /\ [][NextSnapshot]_vars

\* =========================================== SpecMonitor: the hysteresis alone
\* hist: the outcomes ("F" / "S") of the checks made since the Monitor was last
\* in its base state (healthy, c = 0); the send counters restart with it.
HistCap == 3 * MaxThreshold + 2 * MaxExtraFails

AtBase(m) == m.status = MonHealthy /\ m.failCount = 0

Record(o) == IF AtBase(mon) THEN <<o>> ELSE Append(hist, o)

Based(m) == IF AtBase(m) THEN ClearSent(m) ELSE m

InitMonitor ==
    /\ Idle
    /\ pool = NewPool
    /\ ret = NoAddr
    /\ marked = {}
    /\ mon = NewMonitor
    /\ hist = <<>>
    /\ failThreshold \in 1..MaxThreshold
    /\ recoveryThreshold \in 1..MaxThreshold

MCheckFails ==
    /\ mon.failCount < failThreshold + MaxExtraFails
    /\ Len(hist) < HistCap
    /\ mon' = HandleFailure(Based(mon), failThreshold)
    /\ hist' = Record("F")
    /\ UNCHANGED <<poolVars, cfgVars, sysVars>>

MCheckSucceeds ==
    /\ Len(hist) < HistCap
    /\ mon' = HandleSuccess(Based(mon), recoveryThreshold)
    /\ hist' = Record("S")
    /\ UNCHANGED <<poolVars, cfgVars, sysVars>>

\* The event loop takes the pending on_unhealthy event.
MDrain ==
    /\ mon.onUnhealthy > 0
    /\ mon' = ReceiveUnhealthy(mon)
    /\ UNCHANGED <<hist, poolVars, cfgVars, sysVars>>

MReset ==
    /\ ~AtBase(mon)
    /\ mon' = MonitorReset(mon)
    /\ hist' = <<>>
    /\ UNCHANGED <<poolVars, cfgVars, sysVars>>

NextMonitor ==
    \/ MCheckFails
    \/ MCheckSucceeds
    \/ MDrain
    \/ MReset

SpecMonitor == InitMonitor /\ [][NextMonitor]_vars

\* ================================================ Spec: the application
\* The configurations explored: every feature on (scanner, background scans,
\* Cloudflare TXT list), and a static TXT list with the scanner disabled.
FullCfg == [scanner |-> TRUE, background |-> TRUE, cloudflare |-> TRUE]
StaticCfg == [scanner |-> FALSE, background |-> FALSE, cloudflare |-> TRUE]
DefaultCfg == [scanner |-> TRUE, background |-> FALSE, cloudflare |-> FALSE]

Configs == {FullCfg, StaticCfg}

\* app.New: every component constructed, nothing started.
Constructed ==
    /\ pool = NewPool
    /\ ret = NoAddr
    /\ marked = {}
    /\ mon = NewMonitor
    /\ hist = <<>>
    /\ failThreshold = DefaultFailThreshold
    /\ recoveryThreshold = DefaultRecoveryThreshold
    /\ mgr = NewManager
    /\ child = NoChildren
    /\ conn = "none"
    /\ main = "start"
    /\ orch = [pc |-> "off", next |-> NoAddr, retry |-> FALSE, inFlight |-> 0]
    /\ monitor = [pc |-> "off", r |-> NoAddr]
    /\ helpers = "off"
    /\ ctxDone = FALSE
    /\ scan = NoScan
    /\ ready = NewReady
    /\ snap = NoSnap
    /\ probe = NoProbe
    /\ feed = NoFeed
    /\ dns = NoDns

Init ==
    /\ Constructed
    /\ goos \in {"windows", "unix"}
    /\ cfg \in Configs

frame == <<ret, marked, hist, failThreshold, recoveryThreshold, goos, cfg, scan, ready,
           snap, probe, feed, dns>>

\* ---- Manager.Connect, called by App.Run and by App.handleDisconnect
\* The caller's continuation once Connect has returned.
ConnDone(by, ok) ==
    IF by = "main"
    THEN /\ main' = (IF ok THEN "wait" ELSE "fatal")
         \* App.Run steps 5-8: the goroutines start after the first Connect
         /\ monitor' = (IF ok THEN [monitor EXCEPT !.pc = "idle"] ELSE monitor)
         /\ orch' = (IF ok THEN [orch EXCEPT !.pc = "select"] ELSE orch)
         /\ helpers' = (IF ok /\ (cfg.background \/ cfg.cloudflare) THEN "on" ELSE helpers)
    ELSE IF by = "orch"
         THEN /\ orch' = (IF ok
                          THEN [orch EXCEPT !.pc = "hd_reset", !.next = NoAddr]
                          ELSE [orch EXCEPT !.pc = "hd_block", !.retry = TRUE])
              /\ UNCHANGED <<main, monitor, helpers>>
         ELSE UNCHANGED <<main, orch, monitor, helpers>>

ConnPending(by) ==
    IF by = "main"
    THEN main' = "connecting" /\ UNCHANGED <<orch, monitor, helpers>>
    ELSE IF by = "orch"
         THEN orch' = [orch EXCEPT !.pc = "connecting"] /\ UNCHANGED <<main, monitor, helpers>>
         ELSE UNCHANGED <<main, orch, monitor, helpers>>

\* Connect up to the first readiness poll: lock, stop a running tunnel, spawn.
\* started is the outcome of cmd.Start.  The wait goroutine is bound to the
\* process this call spawned.
ConnBegin(by, r, started) ==
    /\ conn = "none"
    /\ \E p \in Pids : child[p] = "free"
    /\ \E s \in (IF IsProcessRunning(goos, mgr, child)
                 THEN StopInternal(goos, mgr, child)
                 ELSE {[mgr |-> mgr, child |-> child]}) :
          IF started
          THEN /\ mgr' = [s.mgr EXCEPT !.cancel = TRUE,
                                       !.cmd = FreePid(s.child),
                                       !.resolverIP = r]
               /\ child' = [s.child EXCEPT ![FreePid(s.child)] = "alive"]
               /\ conn' = by
               /\ ConnPending(by)
          ELSE /\ mgr' = [s.mgr EXCEPT !.cancel = FALSE, !.cmd = NoCmd]
               /\ child' = s.child
               /\ conn' = conn
               /\ ConnDone(by, FALSE)

\* The readiness loop returns and releases the lock: with an error at the
\* first poll that finds the process not running; with nil at the first poll
\* whose dial succeeds, or after the last poll with the port still closed.
\* Both nil returns leave the same state, and polls that find a live child
\* and a closed port change nothing but the loop index: the model has no
\* clock, so the loop is one step.
ConnPoll ==
    /\ conn # "none"
    /\ conn' = "none"
    /\ ConnDone(conn, IsProcessRunning(goos, mgr, child))
    /\ UNCHANGED <<pool, mon, mgr, child, ctxDone, frame>>

\* ---- the child processes and the wait goroutine of Connect
ChildExits(p) ==
    /\ Alive(child, p)
    /\ child' = [child EXCEPT ![p] = "dead"]
    /\ UNCHANGED <<pool, mon, mgr, conn, main, orch, monitor, helpers, ctxDone, frame>>

\* cmd.Wait returns in the goroutine, which then notifies disconnectCh.
ChildReaped(p) ==
    /\ child[p] = "dead"
    /\ child' = [child EXCEPT ![p] = "free"]
    /\ mgr' = [mgr EXCEPT !.disconnectCh = TrySend(@)]
    /\ UNCHANGED <<pool, mon, conn, main, orch, monitor, helpers, ctxDone, frame>>

ChildExit == \E p \in Pids : ChildExits(p)

WaitReturns == \E p \in Pids : ChildReaped(p)

\* ---- App.Run
\* Step 2: the TXT record, when Cloudflare is configured, lists the addresses
\* of list (an error or an empty record is the empty list).
RunFetch(list) ==
    /\ main = "start"
    /\ main' = "scan"
    /\ pool' = (IF cfg.cloudflare THEN AddAll(pool, list) ELSE pool)
    /\ UNCHANGED <<mon, mgr, child, conn, orch, monitor, helpers, ctxDone, frame>>

\* Step 3: the initial scan, which finds the candidates of found.
RunScan(found, l) ==
    /\ main = "scan"
    /\ main' = "connect"
    /\ pool' = (IF cfg.scanner /\ Count(pool) < DefaultMinResolvers
                THEN ApplyScan(pool, found, l)
                ELSE pool)
    /\ UNCHANGED <<mon, mgr, child, conn, orch, monitor, helpers, ctxDone, frame>>

\* Step 4: Pool.Get and the first Connect.
RunConnect(started) ==
    /\ main = "connect"
    /\ IF PoolGet(pool) = NoAddr
       THEN /\ main' = "fatal"
            /\ UNCHANGED <<mgr, child, conn, orch, monitor, helpers>>
       ELSE ConnBegin("main", PoolGet(pool), started)
    /\ UNCHANGED <<pool, mon, ctxDone, frame>>

\* ---- App.handleDisconnects / App.handleDisconnect
\* An event loop that takes events while a reconnect runs.
CanReceiveAnywhere(o) == o.pc \notin {"off", "exited"}

\* The select of the event loop is reached only between two handleDisconnect calls.
CanReceive(o) == o.pc = "select"

\* inFlight counts the executions of the reconnect routine started from the
\* event loop and not yet returned; retry marks the re-entry after a failed
\* Connect, during which next still holds the resolver of the failed call
\* (the local of the calling frame) until step 2 of the re-entry.
Entered(o) == [o EXCEPT !.pc = "hd_block", !.retry = FALSE, !.inFlight = @ + 1]

Returned(o) == [o EXCEPT !.pc = "select", !.next = NoAddr, !.retry = FALSE, !.inFlight = @ - 1]

RecvUnhealthy ==
    /\ CanReceive(orch)
    /\ mon.onUnhealthy > 0
    /\ mon' = ReceiveUnhealthy(mon)
    /\ orch' = Entered(orch)
    /\ UNCHANGED <<pool, mgr, child, conn, main, monitor, helpers, ctxDone, frame>>

RecvDisconnect ==
    /\ CanReceive(orch)
    /\ mgr.disconnectCh > 0
    /\ mgr' = [mgr EXCEPT !.disconnectCh = @ - 1]
    /\ orch' = Entered(orch)
    /\ UNCHANGED <<pool, mon, child, conn, main, monitor, helpers, ctxDone, frame>>

SelectDone ==
    /\ orch.pc = "select"
    /\ ctxDone
    /\ orch' = [orch EXCEPT !.pc = "exited"]
    /\ UNCHANGED <<pool, mon, mgr, child, conn, main, monitor, helpers, ctxDone, frame>>

\* Step 1: mark the Manager's current resolver blocked.
HdBlock ==
    /\ orch.pc = "hd_block"
    /\ conn = "none"
    /\ pool' = (IF mgr.resolverIP # NoAddr THEN MarkBlocked(pool, mgr.resolverIP) ELSE pool)
    /\ orch' = [orch EXCEPT !.pc = "hd_next", !.retry = FALSE]
    /\ UNCHANGED <<mon, mgr, child, conn, main, monitor, helpers, ctxDone, frame>>

\* Step 2: Pool.Next, then the exhaustion test.
HdNext ==
    /\ orch.pc = "hd_next"
    /\ pool' = PoolNext(pool)
    /\ LET nx == PoolGet(pool') IN
       IF nx = NoAddr \/ IsExhausted(pool')
       THEN IF cfg.scanner
            THEN orch' = [orch EXCEPT !.pc = "hd_scan", !.next = NoAddr]
            ELSE IF nx = NoAddr
                 THEN orch' = Returned(orch)
                 ELSE orch' = [orch EXCEPT !.pc = "hd_connect", !.next = nx]
       ELSE orch' = [orch EXCEPT !.pc = "hd_connect", !.next = nx]
    /\ UNCHANGED <<mon, mgr, child, conn, main, monitor, helpers, ctxDone, frame>>

\* A step 3 that goes on to Pool.Get and Connect when the scan found nothing.
HdScanIgnoresZero(found, l) ==
    /\ orch.pc = "hd_scan"
    /\ pool' = ApplyScan(pool, found, l)
    /\ IF PoolGet(pool') = NoAddr
       THEN orch' = Returned(orch)
       ELSE orch' = [orch EXCEPT !.pc = "hd_connect", !.next = PoolGet(pool')]
    /\ UNCHANGED <<mon, mgr, child, conn, main, monitor, helpers, ctxDone, frame>>

\* Step 3: ScanFromSources finds the candidates of found, then Pool.Get.
HdScan(found, l) ==
    /\ orch.pc = "hd_scan"
    /\ pool' = ApplyScan(pool, found, l)
    /\ IF Len(found) = 0 \/ PoolGet(pool') = NoAddr
       THEN orch' = Returned(orch)
       ELSE orch' = [orch EXCEPT !.pc = "hd_connect", !.next = PoolGet(pool')]
    /\ UNCHANGED <<mon, mgr, child, conn, main, monitor, helpers, ctxDone, frame>>

\* Step 4: Connect; on error handleDisconnect calls itself.
HdConnect(started) ==
    /\ orch.pc = "hd_connect"
    /\ ConnBegin("orch", orch.next, started)
    /\ UNCHANGED <<pool, mon, ctxDone, frame>>

\* Step 5: Monitor.Reset after a successful Connect.
HdReset ==
    /\ orch.pc = "hd_reset"
    /\ mon' = MonitorReset(mon)
    /\ orch' = Returned(orch)
    /\ UNCHANGED <<pool, mgr, child, conn, main, monitor, helpers, ctxDone, frame>>

\* ---- Monitor.Start / Monitor.check
\* A tick: IsConnected and CurrentResolver (both wait for Manager.mu), then
\* the SOCKS5 probe starts.
MonCheck ==
    /\ monitor.pc = "idle"
    /\ conn = "none"
    /\ IF ~IsProcessRunning(goos, mgr, child) \/ mgr.resolverIP = NoAddr
       THEN /\ mon' = CapMon(HandleFailure(mon, failThreshold))
            /\ monitor' = monitor
       ELSE /\ monitor' = [pc |-> "probing", r |-> mgr.resolverIP]
            /\ mon' = mon
    /\ UNCHANGED <<pool, mgr, child, conn, main, orch, helpers, ctxDone, frame>>

\* Whether the SOCKS5 probe can succeed: some child is there to listen.
ProxyAnswers(ch) == AlivePids(ch) # {}

\* A check that blocks the resolver whose probe failed.
MonFinishBlocks(ok, l) ==
    /\ monitor.pc = "probing"
    /\ ok => ProxyAnswers(child)
    /\ IF ok
       THEN /\ mon' = CapMon(HandleSuccess(mon, recoveryThreshold))
            /\ pool' = MarkHealthy(pool, monitor.r, l)
       ELSE /\ mon' = CapMon(HandleFailure(mon, failThreshold))
            /\ pool' = MarkBlocked(pool, monitor.r)
    /\ monitor' = [pc |-> "idle", r |-> NoAddr]
    /\ UNCHANGED <<mgr, child, conn, main, orch, helpers, ctxDone, frame>>

\* The probe returns ok: handleSuccess / handleFailure, then the pool is
\* marked for the resolver that was current when the check began.
MonFinish(ok, l) ==
    /\ monitor.pc = "probing"
    /\ ok => ProxyAnswers(child)
    /\ IF ok
       THEN /\ mon' = CapMon(HandleSuccess(mon, recoveryThreshold))
            /\ pool' = MarkHealthy(pool, monitor.r, l)
       ELSE /\ mon' = CapMon(HandleFailure(mon, failThreshold))
            /\ pool' = CapFails(MarkFailed(pool, monitor.r))
    /\ monitor' = [pc |-> "idle", r |-> NoAddr]
    /\ UNCHANGED <<mgr, child, conn, main, orch, helpers, ctxDone, frame>>

MonExit ==
    /\ monitor.pc = "idle"
    /\ ctxDone
    /\ monitor' = [monitor EXCEPT !.pc = "exited"]
    /\ UNCHANGED <<pool, mon, mgr, child, conn, main, orch, helpers, ctxDone, frame>>

\* ---- Scanner.StartBackground and App.periodicTXTRefresh
\* The collector of a background scan reports one working candidate.
BgScan(a, l) ==
    /\ helpers = "on"
    /\ cfg.background
    /\ ~ctxDone
    /\ pool' = ApplyScan(pool, <<a>>, l)
    /\ UNCHANGED <<mon, mgr, child, conn, main, orch, monitor, helpers, ctxDone, frame>>

\* A refresh that adds at least one address.
TxtRefresh(list) ==
    /\ helpers = "on"
    /\ cfg.cloudflare
    /\ ~ctxDone
    /\ pool' = AddAll(pool, list)
    /\ pool' # pool
    /\ UNCHANGED <<mon, mgr, child, conn, main, orch, monitor, helpers, ctxDone, frame>>

HelpersExit ==
    /\ helpers = "on"
    /\ ctxDone
    /\ helpers' = "exited"
    /\ UNCHANGED <<pool, mon, mgr, child, conn, main, orch, monitor, ctxDone, frame>>

\* ---- App.waitForShutdown / App.Shutdown
\* The signal arrives: a.cancel() and healthMon.Stop().
SdCancel ==
    /\ main = "wait"
    /\ ctxDone' = TRUE
    /\ main' = "sd_disconnect"
    /\ UNCHANGED <<pool, mon, mgr, child, conn, orch, monitor, helpers, frame>>

\* tunnelMgr.Shutdown: Disconnect takes Manager.mu and runs stopInternal.
SdDisconnect ==
    /\ main = "sd_disconnect"
    /\ conn = "none"
    /\ \E s \in StopInternal(goos, mgr, child) : mgr' = s.mgr /\ child' = s.child
    /\ main' = "sd_wait"
    /\ UNCHANGED <<pool, mon, conn, orch, monitor, helpers, ctxDone, frame>>

\* a.wg.Wait(): every goroutine of Run has returned.
SdWait ==
    /\ main = "sd_wait"
    /\ orch.pc = "exited"
    /\ monitor.pc = "exited"
    /\ helpers # "on"
    /\ main' = "done"
    /\ UNCHANGED <<pool, mon, mgr, child, conn, orch, monitor, helpers, ctxDone, frame>>

\* ---- the running application in an unconstrained environment
Latencies == 1..MaxLatency

RunFetchAny == \E list \in Orders : RunFetch(list)
RunScanAny == \E found \in Orders, l \in Latencies : RunScan(found, l)
RunConnectAny == \E started \in BOOLEAN : RunConnect(started)
HdScanAny == \E found \in Orders, l \in Latencies : HdScan(found, l)
HdConnectAny == \E started \in BOOLEAN : HdConnect(started)
MonFinishAny == \E ok \in BOOLEAN, l \in Latencies : MonFinish(ok, l)
BgScanAny == \E a \in Addrs, l \in Latencies : BgScan(a, l)
TxtRefreshAny == \E list \in Orders : TxtRefresh(list)

Next ==
    \/ RunFetchAny
    \/ RunScanAny
    \/ RunConnectAny
    \/ ConnPoll
    \/ ChildExit
    \/ WaitReturns
    \/ RecvUnhealthy
    \/ RecvDisconnect
    \/ HdBlock
    \/ HdNext
    \/ HdScanAny
    \/ HdConnectAny
    \/ HdReset
    \/ MonCheck
    \/ MonFinishAny
    \/ BgScanAny
    \/ TxtRefreshAny

Spec == Init /\ [][Next]_vars

\* S1: the default configuration on windows; the initial scan finds two
\* reachable resolvers, A before B, and the tunnel binary always starts.
S1Found == <<1, 2>>
AddrA == S1Found[1]
AddrB == S1Found[2]

\* ---- the application with the shutdown signal (S5): the default
\* configuration on windows, every scan finds A and B, the tunnel binary
\* starts; the children exit when they please and probes pass or fail.  The
\* helper goroutines do not run in this configuration.
NextShutdown ==
    \/ RunFetch(<<>>)
    \/ RunScan(S1Found, 1)
    \/ RunConnect(TRUE)
    \/ ConnPoll
    \/ ChildExit
    \/ WaitReturns
    \/ RecvUnhealthy
    \/ RecvDisconnect
    \/ HdBlock
    \/ HdNext
    \/ HdScan(S1Found, 1)
    \/ HdConnect(TRUE)
    \/ HdReset
    \/ MonCheck
    \/ MonFinishAny
    \/ SdCancel
    \/ SdDisconnect
    \/ SdWait
    \/ SelectDone
    \/ MonExit

InitShutdown ==
    /\ Constructed
    /\ goos = "windows"
    /\ cfg = DefaultCfg

SpecShutdown == InitShutdown /\ [][NextShutdown]_vars

\* ================================ SpecManager: the tunnel.Manager API alone
\* A client calls Connect and Disconnect in any order and takes the events of
\* OnDisconnect; the children exit when they please.
InitManager ==
    /\ Constructed
    /\ goos \in {"windows", "unix"}
    /\ cfg = DefaultCfg

ApiConnect ==
    /\ \E r \in Addrs, started \in BOOLEAN : ConnBegin("client", r, started)
    /\ UNCHANGED <<pool, mon, ctxDone, frame>>

\* Manager.Disconnect: stopInternal under Manager.mu.
ApiDisconnect ==
    /\ conn = "none"
    /\ \E s \in StopInternal(goos, mgr, child) : mgr' = s.mgr /\ child' = s.child
    /\ UNCHANGED <<pool, mon, conn, main, orch, monitor, helpers, ctxDone, frame>>

ApiOnDisconnect ==
    /\ mgr.disconnectCh > 0
    /\ mgr' = [mgr EXCEPT !.disconnectCh = @ - 1]
    /\ UNCHANGED <<pool, mon, child, conn, main, orch, monitor, helpers, ctxDone, frame>>

NextManager ==
    \/ ApiConnect
    \/ ConnPoll
    \/ ApiDisconnect
    \/ ApiOnDisconnect
    \/ ChildExit
    \/ WaitReturns

SpecManager == InitManager /\ [][NextManager]_vars

\* ============================ SpecConnect: Manager.Connect, poll by poll
\* A client calls Connect again and again; each call runs its readiness loop
\* one poll at a time while the children exit and bind the local port when
\* they please.
connFrame == <<ret, marked, hist, failThreshold, recoveryThreshold, goos, cfg, scan,
               snap, probe, feed, dns>>

appIdle == <<main, orch, monitor, helpers>>

\* net.DialTimeout to the local port is accepted: a live child listens.
PortOpen(rd, ch) == rd.port # NoCmd /\ Alive(ch, rd.port)

\* Connect up to the loop: lock, stop a running tunnel, cmd.Start.
CcBegin ==
    /\ \E r \in Addrs, started \in BOOLEAN :
          /\ ConnBegin("client", r, started)
          /\ ready' = [NewReady EXCEPT !.port = ready.port,
                                       !.spawned = started,
                                       !.result = IF started THEN "pending" ELSE "error"]
    /\ UNCHANGED <<pool, mon, ctxDone, connFrame>>

\* The child binds its SOCKS5 listener (the port is free).
PortOpens ==
    /\ \E p \in AlivePids(child) :
          /\ ~PortOpen(ready, child)
          /\ ready' = [ready EXCEPT !.port = p]
    /\ UNCHANGED <<pool, mon, mgr, child, conn, appIdle, ctxDone, connFrame>>

\* One iteration of the loop: sleep, isProcessRunning, dial.  The iteration
\* that finds the process not running returns the error; the one whose dial
\* is accepted returns nil; the last one returns nil with the port closed.
CcPoll ==
    /\ conn = "client"
    /\ ready.result = "pending"
    /\ ready.polls < ReadinessPolls
    /\ LET n == ready.polls + 1 IN
       IF ~IsProcessRunning(goos, mgr, child)
       THEN /\ ready' = [ready EXCEPT !.polls = n, !.result = "error",
                                      !.sawDead = ~Alive(child, mgr.cmd)]
            /\ conn' = "none"
       ELSE IF PortOpen(ready, child)
            THEN /\ ready' = [ready EXCEPT !.polls = n, !.result = "ok",
                                           !.sawOpen = TRUE]
                 /\ conn' = "none"
            ELSE IF n = ReadinessPolls
                 THEN /\ ready' = [ready EXCEPT !.polls = n, !.result = "ok"]
                      /\ conn' = "none"
                 ELSE /\ ready' = [ready EXCEPT !.polls = n]
                      /\ conn' = conn
    /\ UNCHANGED <<pool, mon, mgr, child, appIdle, ctxDone, connFrame>>

NextConnect ==
    \/ CcBegin
    \/ CcPoll
    \/ PortOpens
    \/ ChildExit
    \/ WaitReturns

SpecConnect == InitManager /\ [][NextConnect]_vars

\* ================================== SpecScan: one call of Scanner.Scan alone
\* Scan is called with any list of up to MaxCandidates addresses (repeats
\* allowed) and any ConcurrentScans in 0..MaxWorkers; the context may be
\* cancelled at any time; each probe ends when it pleases, working or not.
CandidateLists == UNION {[1..n -> Addrs] : n \in 1..MaxCandidates}

InitScan ==
    /\ pool = NewPool
    /\ ret = NoAddr
    /\ marked = {}
    /\ mon = NewMonitor
    /\ hist = <<>>
    /\ failThreshold = DefaultFailThreshold
    /\ recoveryThreshold = DefaultRecoveryThreshold
    /\ goos = "windows"
    /\ cfg = [scanner |-> TRUE, background |-> FALSE, cloudflare |-> FALSE]
    /\ mgr = NewManager
    /\ child = NoChildren
    /\ conn = "none"
    /\ main = "start"
    /\ orch = [pc |-> "off", next |-> NoAddr, retry |-> FALSE, inFlight |-> 0]
    /\ monitor = [pc |-> "off", r |-> NoAddr]
    /\ helpers = "off"
    /\ ctxDone = FALSE
    /\ ready = NewReady
    /\ snap = NoSnap
    /\ probe = NoProbe
    /\ feed = NoFeed
    /\ dns = NoDns
    /\ \E w \in 0..MaxWorkers, addresses \in CandidateLists :
          scan = NewScan(w, addresses)

scanFrame == <<ret, marked, monVars, cfgVars, goos, cfg, mgr, child, conn, main,
               orch, monitor, helpers, ready, snap, probe, feed, dns>>

\* A semaphore that never refuses a slot.
SlotAlwaysFree(sc) == TRUE

\* sem <- struct{}{} can proceed: the channel of capacity ConcurrentScans has
\* room (an unbuffered channel, capacity 0, never has: nobody receives).
SlotFree(sc) == sc.sem < sc.w

\* The probes in flight: started (slot acquired, testResolver running) and
\* not yet finished.
InFlight(sc) == {i \in 1..Len(sc.addrs) : sc.pc[i] = "probing"}

\* The select of a worker takes the semaphore case.
WorkerAcquire(i) ==
    /\ scan.pc[i] = "wait"
    /\ SlotFree(scan)
    /\ scan' = [scan EXCEPT !.pc[i] = "probing", !.sem = @ + 1,
                            !.probes[i] = @ + 1]
    /\ UNCHANGED <<pool, ctxDone, scanFrame>>

\* The select of a worker takes ctx.Done: a not-working result, no probe.
WorkerCancelled(i) ==
    /\ scan.pc[i] = "wait"
    /\ ctxDone
    /\ scan' = [scan EXCEPT !.pc[i] = "done",
                            !.outcome[i] = "cancelled",
                            !.resultCh = Append(@, [addr |-> scan.addrs[i],
                                                    working |-> FALSE,
                                                    latency |-> 0])]
    /\ UNCHANGED <<pool, ctxDone, scanFrame>>

\* testResolver returns and the result is sent (resultCh has room for every
\* address, the send never blocks).
WorkerProbed(i, ok, l) ==
    /\ scan.pc[i] = "probing"
    /\ scan' = [scan EXCEPT !.pc[i] = "release",
                            !.outcome[i] = IF ok THEN "ok" ELSE "failed",
                            !.resultCh = Append(@, [addr |-> scan.addrs[i],
                                                    working |-> ok,
                                                    latency |-> l])]
    /\ UNCHANGED <<pool, ctxDone, scanFrame>>

\* The deferred calls of a worker that held a slot: <-sem, then wg.Done.
WorkerRelease(i) ==
    /\ scan.pc[i] = "release"
    /\ scan' = [scan EXCEPT !.pc[i] = "done", !.sem = @ - 1]
    /\ UNCHANGED <<pool, ctxDone, scanFrame>>

\* wg.Wait returns in the closer goroutine: close(resultCh).
ScanClose ==
    /\ ~scan.closed
    /\ \A i \in 1..Len(scan.addrs) : scan.pc[i] = "done"
    /\ scan' = [scan EXCEPT !.closed = TRUE]
    /\ UNCHANGED <<pool, ctxDone, scanFrame>>

\* The collector takes the next result; a working one is added to the pool
\* and marked healthy.
ScanCollect ==
    /\ scan.resultCh # <<>>
    /\ pool' = Collect(pool, Head(scan.resultCh))
    /\ scan' = [scan EXCEPT !.resultCh = Tail(@),
                            !.results = Append(@, Head(scan.resultCh))]
    /\ UNCHANGED <<ctxDone, scanFrame>>

\* The range loop ends on the closed, drained channel: Scan returns, and
\* ScanFromSources counts the working results.
ScanReturn ==
    /\ scan.closed
    /\ scan.resultCh = <<>>
    /\ ~scan.returned
    /\ scan' = [scan EXCEPT !.returned = TRUE, !.count = Working(scan.results)]
    /\ UNCHANGED <<pool, ctxDone, scanFrame>>

\* The caller's context is cancelled while the scan runs.
ScanCancel ==
    /\ ~ctxDone
    /\ ~scan.returned
    /\ ctxDone' = TRUE
    /\ UNCHANGED <<pool, scan, scanFrame>>

WorkerAcquireAny == \E i \in 1..Len(scan.addrs) : WorkerAcquire(i)
WorkerCancelledAny == \E i \in 1..Len(scan.addrs) : WorkerCancelled(i)
WorkerProbedAny ==
    \E i \in 1..Len(scan.addrs), ok \in BOOLEAN, l \in 1..MaxLatency :
        WorkerProbed(i, ok, l)
WorkerReleaseAny == \E i \in 1..Len(scan.addrs) : WorkerRelease(i)

NextScanCall ==
    \/ WorkerAcquireAny
    \/ WorkerCancelledAny
    \/ WorkerProbedAny
    \/ WorkerReleaseAny
    \/ ScanClose
    \/ ScanCollect
    \/ ScanReturn
    \/ ScanCancel

SpecScan == InitScan /\ [][NextScanCall]_vars

\* ---- SpecScanFair: the same call where every goroutine of the scan that
\* can take a step eventually takes one (the Go scheduler starves no runnable
\* goroutine, and testResolver ends within its timeout).  Cancellation is up
\* to the caller and is not forced.
SpecScanFair ==
    /\ InitScan
    /\ [][NextScanCall]_vars
    /\ WF_vars(WorkerAcquireAny)
    /\ WF_vars(WorkerCancelledAny)
    /\ WF_vars(WorkerProbedAny)
    /\ WF_vars(WorkerReleaseAny)
    /\ WF_vars(ScanClose)
    /\ WF_vars(ScanCollect)
    /\ WF_vars(ScanReturn)

\* ---- SpecS1Scan: the initial scan of S1 alone.  The candidates are A and B
\* (reachable) and a third address that never answers; ConcurrentScans has
\* its default; the context is not cancelled.  The probes end in any order.
Unreachable == NumAddrs + 1

S1Candidates == <<AddrA, AddrB, Unreachable>>

\* config.DefaultConfig: Scanner.ConcurrentScans.
DefaultConcurrentScans == 10

InitS1Scan ==
    /\ pool = NewPool
    /\ ret = NoAddr
    /\ marked = {}
    /\ mon = NewMonitor
    /\ hist = <<>>
    /\ failThreshold = DefaultFailThreshold
    /\ recoveryThreshold = DefaultRecoveryThreshold
    /\ goos = "windows"
    /\ cfg = DefaultCfg
    /\ mgr = NewManager
    /\ child = NoChildren
    /\ conn = "none"
    /\ main = "scan"
    /\ orch = [pc |-> "off", next |-> NoAddr, retry |-> FALSE, inFlight |-> 0]
    /\ monitor = [pc |-> "off", r |-> NoAddr]
    /\ helpers = "off"
    /\ ctxDone = FALSE
    /\ ready = NewReady
    /\ snap = NoSnap
    /\ probe = NoProbe
    /\ feed = NoFeed
    /\ dns = NoDns
    /\ scan = NewScan(DefaultConcurrentScans, S1Candidates)

\* testResolver answers for A and B and times out for the third candidate.
S1Probed ==
    \E i \in 1..Len(scan.addrs) : WorkerProbed(i, scan.addrs[i] # Unreachable, 1)

NextS1Scan ==
    \/ WorkerAcquireAny
    \/ S1Probed
    \/ WorkerReleaseAny
    \/ ScanClose
    \/ ScanCollect
    \/ ScanReturn

SpecS1Scan == InitS1Scan /\ [][NextS1Scan]_vars

\* The components constructed and at rest, for the specifications of one call.
PoolOff ==
    /\ pool = NewPool
    /\ ret = NoAddr
    /\ marked = {}
    /\ mon = NewMonitor
    /\ hist = <<>>
    /\ failThreshold = DefaultFailThreshold
    /\ recoveryThreshold = DefaultRecoveryThreshold

AppOff ==
    /\ goos = "windows"
    /\ cfg = DefaultCfg
    /\ mgr = NewManager
    /\ child = NoChildren
    /\ conn = "none"
    /\ main = "start"
    /\ orch = [pc |-> "off", next |-> NoAddr, retry |-> FALSE, inFlight |-> 0]
    /\ monitor = [pc |-> "off", r |-> NoAddr]
    /\ helpers = "off"
    /\ ctxDone = FALSE

\* ================== SpecProbe: one call of Monitor.testSOCKS5Connection
\* The call runs against a proxy of any behaviour.
InitProbe ==
    /\ PoolOff
    /\ AppOff
    /\ scan = NoScan
    /\ ready = NewReady
    /\ snap = NoSnap
    /\ feed = NoFeed
    /\ dns = NoDns
    /\ \E b \in ProxyBehaviours : probe = NewProbe(b)

ProbeRuns ==
    /\ probe.out = NoOut
    /\ probe' = [probe EXCEPT !.out = TestSOCKS5Connection(probe.in)]
    /\ UNCHANGED <<poolVars, monVars, cfgVars, goos, cfg, mgr, child, conn, main,
                   orch, monitor, helpers, ctxDone, scan, ready, snap, feed, dns>>

NextProbe == ProbeRuns

SpecProbe == InitProbe /\ [][NextProbe]_vars

\* ======================= SpecFeed: one call of Scanner.parseCIDRList
\* The call parses any feed of up to MaxLines lines with MaxCandidates in
\* 0..MaxCap (0: no limit).
Feeds == UNION {[1..n -> FeedLines] : n \in 0..MaxLines}

InitFeed ==
    /\ PoolOff
    /\ AppOff
    /\ scan = NoScan
    /\ ready = NewReady
    /\ snap = NoSnap
    /\ probe = NoProbe
    /\ \E lines \in Feeds, max \in 0..MaxCap : feed = NewFeed(lines, max)
    /\ dns = NoDns

FeedParsed ==
    /\ ~feed.done
    /\ feed' = [feed EXCEPT !.done = TRUE, !.out = ParseCIDRList(feed.lines, feed.max)]
    /\ UNCHANGED <<poolVars, monVars, cfgVars, goos, cfg, mgr, child, conn, main,
                   orch, monitor, helpers, ctxDone, scan, ready, snap, probe, dns>>

NextFeed == FeedParsed

SpecFeed == InitFeed /\ [][NextFeed]_vars

\* ================================== SpecVerdict: one call of testResolver
InitVerdict ==
    /\ PoolOff
    /\ AppOff
    /\ scan = NoScan
    /\ ready = NewReady
    /\ snap = NoSnap
    /\ probe = NoProbe
    /\ feed = NoFeed
    /\ \E x \in Exchanges : dns = NewDns(x)

VerdictGiven ==
    /\ dns.out = "none"
    /\ dns' = [dns EXCEPT !.out = TestResolver(dns.in)]
    /\ UNCHANGED <<poolVars, monVars, cfgVars, goos, cfg, mgr, child, conn, main,
                   orch, monitor, helpers, ctxDone, scan, ready, snap, probe, feed>>

NextVerdict == VerdictGiven

SpecVerdict == InitVerdict /\ [][NextVerdict]_vars

\* ===================== SpecRotation: Pool.Next on pools of every shape
\* Next is called again and again on a pool of up to MaxPoolSize resolvers
\* (addresses 1..n in insertion order) with any statuses and any cursor, as
\* earlier Add, Mark and Next calls can have left it; no status changes.
Statuses == {StatusUnknown, StatusHealthy, StatusDegraded, StatusBlocked}

\* A record with status st as the pool operations leave one: healthy by
\* MarkHealthy, degraded by the third MarkFailed, blocked by MarkBlocked of
\* a fresh record.
RecordWith(a, st) ==
    IF st = StatusHealthy THEN HealthyRecord(NewResolver(a), 1)
    ELSE IF st = StatusDegraded
         THEN FailedRecord(FailedRecord(FailedRecord(NewResolver(a))))
         ELSE IF st = StatusBlocked THEN BlockRecord(NewResolver(a))
              ELSE NewResolver(a)

InitRotation ==
    /\ AppOff
    /\ scan = NoScan
    /\ ready = NewReady
    /\ snap = NoSnap
    /\ probe = NoProbe
    /\ feed = NoFeed
    /\ dns = NoDns
    /\ ret = NoAddr
    /\ marked = {}
    /\ mon = NewMonitor
    /\ hist = <<>>
    /\ failThreshold = DefaultFailThreshold
    /\ recoveryThreshold = DefaultRecoveryThreshold
    /\ \E n \in 1..MaxPoolSize :
          \E st \in [1..n -> Statuses], cur \in 0..(n - 1) :
              pool = [resolvers |-> [i \in 1..n |-> RecordWith(i, st[i])],
                      current |-> cur]

NextRotation == PNext

SpecRotation == InitRotation /\ [][NextRotation]_vars

\* ===================================== scenarios of the running application
InitS1 ==
    /\ Constructed
    /\ goos = "windows"
    /\ cfg = DefaultCfg

BoundTo(a) == mgr.resolverIP = a

\* ---- SpecS2: S1, then the proxy of a session bound to A stops replying,
\* while a session bound to B passes every check.  No child exits by itself;
\* every scan finds A and B again.
S2Probe ==
    \E ok \in BOOLEAN : (BoundTo(AddrB) => ok) /\ MonFinish(ok, 1)

NextS2 ==
    \/ RunFetch(<<>>)
    \/ RunScan(S1Found, 1)
    \/ RunConnect(TRUE)
    \/ ConnPoll
    \/ WaitReturns
    \/ RecvUnhealthy
    \/ RecvDisconnect
    \/ HdBlock
    \/ HdNext
    \/ HdScan(S1Found, 1)
    \/ HdConnect(TRUE)
    \/ HdReset
    \/ MonCheck
    \/ S2Probe

SpecS2 == InitS1 /\ [][NextS2]_vars

\* ---- SpecS4: S1, then the child of the session bound to A is killed by the
\* OS.  Probes pass whenever a child is there to answer; no other child exits
\* by itself; every scan finds A and B again.
S4Crash ==
    /\ mgr.cmd # NoCmd
    /\ BoundTo(AddrA)
    /\ ChildExits(mgr.cmd)

S4Probe == MonFinish(ProxyAnswers(child), 1)

NextS4 ==
    \/ RunFetch(<<>>)
    \/ RunScan(S1Found, 1)
    \/ RunConnect(TRUE)
    \/ ConnPoll
    \/ S4Crash
    \/ WaitReturns
    \/ RecvUnhealthy
    \/ RecvDisconnect
    \/ HdBlock
    \/ HdNext
    \/ HdScan(S1Found, 1)
    \/ HdConnect(TRUE)
    \/ HdReset
    \/ MonCheck
    \/ S4Probe

SpecS4 == InitS1 /\ [][NextS4]_vars

\* ---- SpecCancel: S1 with the shutdown signal, where every goroutine that
\* can take a step eventually takes one.  The children exit when they
\* please, a later start of the tunnel binary may fail, probes pass whenever
\* a child is there to answer, and a rediscovery scan finds A and B or, once
\* the context is cancelled (every dial then fails at once), nothing.  A select
\* picks among its ready cases at random and the Manager's mutex is granted
\* in turn, so a case that is ready again and again is eventually taken.
CancelScan == HdScan(IF ctxDone THEN <<>> ELSE S1Found, 1)

CancelOrch ==
    \/ RecvUnhealthy
    \/ RecvDisconnect
    \/ HdBlock
    \/ HdNext
    \/ CancelScan
    \/ HdConnectAny
    \/ HdReset

CancelMonitor ==
    \/ MonCheck
    \/ S4Probe

NextCancel ==
    \/ RunFetch(<<>>)
    \/ RunScan(S1Found, 1)
    \/ RunConnect(TRUE)
    \/ ConnPoll
    \/ ChildExit
    \/ WaitReturns
    \/ CancelOrch
    \/ CancelMonitor
    \/ SdCancel
    \/ SdDisconnect
    \/ SdWait
    \/ SelectDone
    \/ MonExit

SpecCancel ==
    /\ InitS1
    /\ [][NextCancel]_vars
    /\ WF_vars(ConnPoll)
    /\ WF_vars(WaitReturns)
    /\ WF_vars(CancelOrch)
    /\ WF_vars(CancelMonitor)
    /\ SF_vars(SelectDone)
    /\ SF_vars(MonExit)
    /\ SF_vars(SdDisconnect)
    /\ WF_vars(SdWait)

\* ---- SpecDeadPath: the initial scan finds some resolvers, then the censor
\* closes every path: each probe fails and each later scan finds nothing.
\* No child exits by itself.  Every goroutine that can take a step
\* eventually takes one (the ticker of the Monitor keeps firing, the event
\* loop and the wait goroutines are scheduled).
DeadMain ==
    \/ RunFetch(<<>>)
    \/ \E found \in Orders \ {<<>>} : RunScan(found, 1)
    \/ RunConnect(TRUE)

DeadOrch ==
    \/ RecvUnhealthy
    \/ RecvDisconnect
    \/ HdBlock
    \/ HdNext
    \/ HdScan(<<>>, 1)
    \/ HdConnect(TRUE)
    \/ HdReset
    \/ ConnPoll

DeadMonitor ==
    \/ MonCheck
    \/ MonFinish(FALSE, 1)

NextDeadPath ==
    \/ DeadMain
    \/ DeadOrch
    \/ DeadMonitor
    \/ WaitReturns

SpecDeadPath ==
    /\ InitS1
    /\ [][NextDeadPath]_vars
    /\ WF_vars(DeadMain)
    /\ WF_vars(DeadOrch)
    /\ WF_vars(DeadMonitor)
    /\ WF_vars(WaitReturns)

\* ------------------------------------------------ claims on SpecManager
\* C1: at every moment at most one child process spawned by the Manager is
\* alive, for any interleaving of Connect, Disconnect and child exits.
C1_AtMostOneChild == Cardinality(AlivePids(child)) <= 1

\* ------------------------------------------------------ claims on SpecS2
\* C2: in S2 the rotation away from A is the only one: B, which the session
\* is bound to after the rotation and whose proxy passes every check, is
\* never marked blocked (in particular not because of the exit of A's child
\* that Connect(B) itself caused).
C2_RotationKeepsB == StatusOf(pool, AddrB) # StatusBlocked

\* ------------------------------------------------------ claims on SpecS4
BlockedAddrs(p) ==
    {p.resolvers[i].addr : i \in {j \in 1..Len(p.resolvers) :
                                     p.resolvers[j].status = StatusBlocked}}

\* C3: in S4 the one unexpected exit (of A's child) leads to one execution of
\* the reconnect chain: at most one resolver is ever marked blocked, whether
\* or not the Monitor emits on_unhealthy for the same outage.
C3_OneReconnectPerOutage == Cardinality(BlockedAddrs(pool)) <= 1

\* ------------------------------------------------------- claims on Spec
\* C4: at most one execution of the reconnect routine is in progress, and
\* the triggers that arrive meanwhile are held, at most one per channel.
C4_SingleFlight ==
    /\ orch.inFlight <= 1
    /\ mon.onUnhealthy <= ChanCap
    /\ mgr.disconnectCh <= ChanCap

\* A reconnect is running while both channels hold a pending trigger.
C4_Witness ==
    /\ orch.inFlight = 1
    /\ mon.onUnhealthy = ChanCap
    /\ mgr.disconnectCh = ChanCap

\* C9: every failed Connect of the reconnect routine leaves one more resolver
\* blocked: the re-entry after the failure blocks a resolver that was not
\* blocked before.
C9_FailedConnectBlocksOneMore ==
    [][(orch.pc = "hd_block" /\ orch.retry /\ orch'.pc = "hd_next")
          => Cardinality(BlockedAddrs(pool')) = Cardinality(BlockedAddrs(pool)) + 1]_vars

\* ------------------------------------------------ claims on SpecDeadPath
\* The reconnect routine has given up: it is back in the event loop with every
\* resolver of the pool blocked, the last scan having found none.
Abandoned == orch.pc = "select" /\ Count(pool) > 0 /\ IsExhausted(pool)

\* C10: with the tunnel unusable for good, an abandoned reconnect is followed
\* by another execution of the reconnect routine.
C10_AbandonedIsRetried == Abandoned ~> (orch.inFlight = 1)

\* ------------------------------------------------- claims on SpecPool
Resolvers == {pool.resolvers[i] : i \in 1..Len(pool.resolvers)}

\* C5: after mark_blocked(a), no later Get or Next returns a until the state is
\* reset with Clear (ret is the value the last pool call returned).
C5_BlockedNeverReturned == ret # NoAddr => ret \notin marked

AllFails(h) == \A i \in 1..Len(h) : h[i] = "F"

\* C7: from healthy with c = 0, a run of consecutive failed checks executes the
\* on_unhealthy send exactly once, at the fail_threshold-th failure and not
\* before; later failures of the run send nothing, drained or not, and every
\* failed check completes (the counter advances by one each time).
C7_TripEdge ==
    (hist # <<>> /\ AllFails(hist)) =>
        /\ mon.failCount = Len(hist)
        /\ mon.sentUnhealthy = (IF Len(hist) >= failThreshold THEN 1 ELSE 0)
        /\ (Len(hist) >= failThreshold <=> mon.status = MonUnhealthy)
        /\ mon.onUnhealthy <= ChanCap

\* A failure after the trip, with the event still in the channel.
C7_Witness ==
    /\ AllFails(hist)
    /\ Len(hist) > failThreshold
    /\ mon.onUnhealthy = 1

\* hist is fail_threshold failures followed by k successes.
RoundTrip(k) ==
    /\ Len(hist) = failThreshold + k
    /\ \A i \in 1..Len(hist) : hist[i] = (IF i <= failThreshold THEN "F" ELSE "S")

\* C8: from healthy with c = 0, fail_threshold failures followed by
\* fail_threshold + recovery_threshold successes end in status healthy with
\* c = 0 and one on_healthy send, made by the last of these successes.
C8_RoundTrip ==
    \A k \in 0..(failThreshold + recoveryThreshold) :
        RoundTrip(k) =>
            IF k = failThreshold + recoveryThreshold
            THEN AtBase(mon) /\ mon.sentHealthy = 1
            ELSE mon.status = MonUnhealthy /\ mon.sentHealthy = 0

\* The round trip completed with both thresholds above one.
C8_Witness ==
    /\ RoundTrip(failThreshold + recoveryThreshold)
    /\ failThreshold > 1
    /\ recoveryThreshold > 1

\* ------------------------------------------------- further claims on Spec
\* C11: when the rediscovery scan of the reconnect routine runs on an exhausted
\* pool and finds no working resolver (the scan leaves the pool as it was),
\* the routine returns to the event loop without a Connect: no child is
\* spawned, the Manager is untouched and the pool is still exhausted.
C11_EmptyRediscoveryIdles ==
    [][(orch.pc = "hd_scan" /\ orch'.pc # "hd_scan"
           /\ IsExhausted(pool) /\ pool' = pool)
          => /\ orch' = Returned(orch)
             /\ child' = child
             /\ mgr' = mgr
             /\ conn' = "none"
             /\ IsExhausted(pool')]_vars

\* The event loop waits after a rediscovery that found nothing: scanner on,
\* every resolver of a non-empty pool blocked, no reconnect in progress.
C11_Witness ==
    /\ cfg.scanner
    /\ orch.pc = "select"
    /\ orch.inFlight = 0
    /\ Count(pool) > 0
    /\ IsExhausted(pool)

\* C13: start-up fails ("fatal": Run returns an error) only when no resolver
\* other than the one whose Connect failed last (the one at the cursor) is
\* left non-blocked in the pool: a failed first Connect alone does not end
\* start-up.
C13_StartupTriesEveryResolver ==
    main = "fatal" =>
        \A i \in 1..Len(pool.resolvers) :
            pool.resolvers[i].addr # PoolGet(pool)
                => pool.resolvers[i].status = StatusBlocked

\* C14: when a Connect(r) of the reconnect routine has failed, step 1 of the
\* re-entry leaves r marked blocked, before the next resolver is chosen and
\* the next Connect is attempted (orch.next is the r of the failed call).
C14_FailedResolverIsBlocked ==
    [][(orch.pc = "hd_block" /\ orch.retry /\ orch'.pc = "hd_next")
          => StatusOf(pool', orch.next) = StatusBlocked]_vars

\* ------------------------------------------------ claims on SpecShutdown
\* C12: once App.Shutdown has completed (wg.Wait returned), no tunnel child
\* process is alive.
C12_NoOrphanAfterShutdown == main = "done" => AlivePids(child) = {}

\* ------------------------------------------- further claims on SpecPool
\* a is the only resolver of p that is not blocked.
OnlyNonBlocked(p, a) ==
    \A i \in 1..Len(p.resolvers) :
        p.resolvers[i].status # StatusBlocked <=> p.resolvers[i].addr = a

\* C15: in every reachable pool state, two Next calls in a row return the
\* same resolver only if it is the one resolver that is not blocked.
C15_NextDoesNotRepeat ==
    LET p1 == PoolNext(pool)
        p2 == PoolNext(p1)
    IN  (Count(pool) > 0 /\ PoolGet(p1) = PoolGet(p2))
            => OnlyNonBlocked(pool, PoolGet(p1))

\* Index of the first resolver of p that is not blocked (0 when exhausted).
FirstNonBlocked(p) ==
    IF IsExhausted(p) THEN 0
    ELSE CHOOSE i \in 1..Len(p.resolvers) :
             /\ p.resolvers[i].status # StatusBlocked
             /\ \A j \in 1..(i - 1) : p.resolvers[j].status = StatusBlocked

\* C16: in every reachable pool state Get returns the resolver at the cursor
\* if it is not blocked, otherwise the first resolver from index 0 that is
\* not blocked, and nothing exactly when the pool is exhausted.
C16_GetSkipsBlocked ==
    PoolGet(pool) =
        (IF IsExhausted(pool) THEN NoAddr
         ELSE IF pool.resolvers[pool.current + 1].status # StatusBlocked
              THEN pool.resolvers[pool.current + 1].addr
              ELSE pool.resolvers[FirstNonBlocked(pool)].addr)

\* Cursor of the first resolver after the cursor of p, wrapping around and
\* ending with the cursor itself, that is not blocked (p not exhausted).
NextNonBlocked(p) ==
    LET n == Len(p.resolvers)
        at(k) == (p.current + k) % n
        k0 == CHOOSE k \in 1..n :
                  /\ p.resolvers[at(k) + 1].status # StatusBlocked
                  /\ \A j \in 1..(k - 1) : p.resolvers[at(j) + 1].status = StatusBlocked
    IN  at(k0)

\* C17: in every reachable pool state Next moves the cursor to the next
\* resolver after it (wrapping) that is not blocked and returns the resolver
\* at the new cursor; it returns nothing when every resolver is blocked.
C17_NextFindsNonBlocked ==
    LET p1 == PoolNext(pool) IN
    IF IsExhausted(pool)
    THEN PoolGet(p1) = NoAddr
    ELSE /\ p1.current = NextNonBlocked(pool)
         /\ PoolGet(p1) = pool.resolvers[NextNonBlocked(pool) + 1].addr
         /\ p1.resolvers = pool.resolvers

\* C18: in every reachable pool state the addresses are pairwise distinct, and
\* Add of an address that is present leaves the pool as it is: same count,
\* same records (status, fail count), same order, same cursor.
C18_AddIdempotent ==
    /\ \A i, j \in 1..Len(pool.resolvers) :
           pool.resolvers[i].addr = pool.resolvers[j].addr => i = j
    /\ \A a \in Addrs : HasAddr(pool, a) => PoolAdd(pool, a) = pool
    /\ \A a \in Addrs : PoolAdd(PoolAdd(pool, a), a) = PoolAdd(pool, a)

\* Every candidate address is in the pool, so that each further Add repeats
\* one; the records are no longer fresh and the cursor has moved.
C18_Witness ==
    /\ Count(pool) = NumAddrs
    /\ pool.current > 0
    /\ \E i \in 1..Len(pool.resolvers) : pool.resolvers[i].status = StatusBlocked
    /\ \E i \in 1..Len(pool.resolvers) : pool.resolvers[i].failCount > 0

\* ------------------------------------------------- claims on SpecScan
\* C19: during a Scan with ConcurrentScans = W, the number of probes in
\* flight (started and not yet finished) never exceeds W, and the slots of
\* the semaphore in use never exceed W.
C19_ProbesWithinWorkers ==
    /\ Cardinality(InFlight(scan)) <= scan.w
    /\ scan.sem <= scan.w

\* More candidates than workers: W >= 2 probes are in flight while another
\* worker waits for a slot.
C19_Witness ==
    /\ scan.w >= 2
    /\ Cardinality(InFlight(scan)) = scan.w
    /\ \E i \in 1..Len(scan.addrs) : scan.pc[i] = "wait"

\* --------------------------------------- further claims on SpecManager
\* C20: whenever Disconnect can run (no Connect holds the lock), whatever the
\* earlier Connect calls returned, every outcome of its stopInternal leaves
\* IsConnected false and CurrentResolver empty.
C20_DisconnectClears ==
    conn = "none" =>
        \A s \in StopInternal(goos, mgr, child) :
            /\ ~IsProcessRunning(goos, s.mgr, s.child)
            /\ s.mgr.resolverIP = NoAddr

\* ------------------------------------------------- further claims on Spec
\* C21: a resolver enters status blocked only in step 1 of the reconnect
\* routine (MarkBlocked of the Manager's current resolver); a step of the
\* Monitor changes the pool only as MarkFailed or MarkHealthy of the resolver
\* it checked; and MarkFailed of a record that is not blocked leaves it not
\* blocked whatever its fail count.
C21_OnlyOrchestratorBlocks ==
    [][/\ (BlockedAddrs(pool') \ BlockedAddrs(pool) # {})
            => /\ orch.pc = "hd_block"
               /\ orch'.pc = "hd_next"
               /\ pool' = MarkBlocked(pool, mgr.resolverIP)
       /\ (monitor' # monitor /\ pool' # pool)
            => \/ pool' = CapFails(MarkFailed(pool, monitor.r))
               \/ \E l \in Latencies : pool' = MarkHealthy(pool, monitor.r, l)
       /\ \A i \in 1..Len(pool'.resolvers), n \in 0..MaxFailCount :
              LET r == [pool'.resolvers[i] EXCEPT !.failCount = n] IN
              FailedRecord(r).status = StatusBlocked => r.status = StatusBlocked]_vars

\* Step 1 of the reconnect routine has just blocked the Manager's resolver,
\* after failed checks of the Monitor that left it unhealthy.
C21_Witness ==
    /\ orch.pc = "hd_next"
    /\ StatusOf(pool, mgr.resolverIP) = StatusBlocked
    /\ mon.status = MonUnhealthy

\* ---------------------------------------------- claims on SpecS1Scan
\* C22: when the initial scan of S1 has returned, the pool holds exactly the
\* two reachable candidates, both healthy, and Get (the resolver App.Run
\* connects to) returns A, the first reachable candidate of the list, in
\* whatever order the probes completed.
C22_ColdStartFirstCandidate ==
    scan.returned =>
        /\ Count(pool) = 2
        /\ CountHealthy(pool) = 2
        /\ ~HasAddr(pool, Unreachable)
        /\ PoolGet(pool) = AddrA

\* ---------------------------------------------- claims on SpecConnect
\* C23: Connect returns an error exactly when the child could not be spawned
\* or had exited at one of its at most 20 readiness polls; otherwise it
\* returns nil, at the poll whose dial was accepted or at the 20th poll with
\* the child alive at every poll and no dial accepted.
C23_ConnectOutcome ==
    /\ ready.polls <= ReadinessPolls
    /\ ready.result = "error" => (~ready.spawned \/ ready.sawDead)
    /\ ready.result = "ok" =>
           /\ ready.spawned
           /\ ~ready.sawDead
           /\ ready.sawOpen \/ ready.polls = ReadinessPolls

\* --------------------------------------------- claims on SpecSnapshot
\* C24: a snapshot taken with All keeps, for every resolver, the status and
\* the fail count it had when the snapshot was taken, whatever mark calls
\* run afterwards.
C24_SnapshotIsolated ==
    \A i \in 1..Len(snap.refs) :
        /\ Deref(snap, pool)[i].status = snap.taken[i].status
        /\ Deref(snap, pool)[i].failCount = snap.taken[i].failCount

\* ------------------------------------------- further claims on SpecPool
\* C25: in every reachable pool state every resolver with fail_count >= 3
\* has status degraded or blocked; and MarkFailed of a resolver of the pool
\* adds one to its fail count, sets its status to degraded when the new
\* count is >= 3 (leaving the status alone below that), and changes nothing
\* else in the pool.
C25_FailedEnoughIsDegraded ==
    /\ \A r \in Resolvers :
           r.failCount >= DegradeAt => r.status \in {StatusDegraded, StatusBlocked}
    /\ \A a \in Addrs :
           HasAddr(pool, a) =>
               LET i == IndexOf(pool.resolvers, a)
                   r == pool.resolvers[i]
                   q == MarkFailed(pool, a)
               IN  /\ q.resolvers[i].failCount = r.failCount + 1
                   /\ q.resolvers[i].status =
                          (IF r.failCount + 1 >= DegradeAt THEN StatusDegraded ELSE r.status)
                   /\ q.resolvers[i].addr = a
                   /\ q.resolvers[i].latency = r.latency
                   /\ q.current = pool.current
                   /\ Len(q.resolvers) = Len(pool.resolvers)
                   /\ \A j \in 1..Len(pool.resolvers) :
                          j # i => q.resolvers[j] = pool.resolvers[j]

\* A resolver whose third failure degraded it and which was then blocked,
\* next to one that is still below the limit.
C25_Witness ==
    /\ \E r \in Resolvers : r.failCount >= DegradeAt /\ r.status = StatusBlocked
    /\ \E r \in Resolvers : r.failCount = DegradeAt - 1 /\ r.status = StatusHealthy

\* ------------------------------------------------ claims on SpecProbe
\* C26: a check succeeds exactly when the dial is accepted, the greeting is
\* sent and a reply whose first byte is 0x05 is read; and no CONNECT request
\* is written to the proxy.
C26_GreetingOnly ==
    probe.out # NoOut =>
        /\ probe.out.ok <=> /\ probe.in.dial
                            /\ probe.in.greetSent
                            /\ probe.in.reply # <<>>
                            /\ probe.in.reply[1] = SocksVersion
        /\ \A i \in 1..Len(probe.out.wrote) : probe.out.wrote[i] # "connect"

\* ------------------------------------------------- claims on SpecFeed
\* The value of an IPv4 address, and the address of a value.
ToInt(a) == ((a[1] * 256 + a[2]) * 256 + a[3]) * 256 + a[4]

FromInt(v) == <<v \div 16777216, (v \div 65536) % 256, (v \div 256) % 256, v % 256>>

\* What a line is to yield: an IPv4 CIDR its network address + 1, a plain
\* IPv4 address (about which the claim is silent) itself, anything else -
\* blank, comment, IPv6 - nothing.
Yield(l) ==
    IF l.kind = "cidr" /\ l.fam = 4
    THEN LET v == ToInt(l.ip) IN
         <<Candidate(Host(4, FromInt(v - (v % (2 ^ (32 - l.bits))) + 1)))>>
    ELSE IF l.kind = "ip" /\ l.fam = 4
         THEN <<Candidate(Host(4, l.ip))>>
         ELSE <<>>

RECURSIVE YieldAll(_)
YieldAll(lines) ==
    IF lines = <<>> THEN <<>> ELSE Yield(Head(lines)) \o YieldAll(Tail(lines))

Truncated(q, max) == IF max > 0 /\ Len(q) > max THEN SubSeq(q, 1, max) ELSE q

\* C29: the result of parsing a feed is, in feed order, '<network address +
\* 1>:53' for each IPv4 CIDR line, nothing for blank, comment and IPv6 lines
\* (CIDR or plain address), cut to max_candidates entries when that is > 0.
C29_FeedCandidates ==
    feed.done =>
        /\ feed.out = Truncated(YieldAll(feed.lines), feed.max)
        /\ \A i \in 1..Len(feed.out) : feed.out[i].host.fam = 4
        /\ feed.max > 0 => Len(feed.out) <= feed.max

\* --------------------------------------- further claims on SpecMonitor
\* The check just made, if any, and the failed minus the successful checks
\* of a history.
LastOf(h) == h[Len(h)]

RECURSIVE Net(_)
Net(h) ==
    IF h = <<>> THEN 0
    ELSE (IF Head(h) = "F" THEN 1 ELSE -1) + Net(Tail(h))

Tripped == mon.status # MonUnhealthy /\ mon'.status = MonUnhealthy

RECURSIVE TrailingS(_)
TrailingS(h) ==
    IF h = <<>> THEN 0
    ELSE IF LastOf(h) = "S" THEN 1 + TrailingS(SubSeq(h, 1, Len(h) - 1)) ELSE 0

\* A successful check made while the Monitor is unhealthy.
SuccessWhileUnhealthy ==
    /\ mon.status = MonUnhealthy
    /\ hist' = Append(hist, "S")

Recovered ==
    /\ mon'.status = MonHealthy
    /\ mon'.failCount = 0
    /\ mon'.sentHealthy = mon.sentHealthy + 1
    /\ mon'.onHealthy = TrySend(mon.onHealthy)

NonBlockedAfter(p) ==
    LET n == Len(p.resolvers)
        NotBlockedAt(c) == p.resolvers[c + 1].status # StatusBlocked
    IN  SelectSeq([j \in 1..n |-> (p.current + j) % n], NotBlockedAt)

\* The pool after j calls of Next.
RECURSIVE NextTimes(_, _)
NextTimes(p, j) == IF j = 0 THEN p ELSE PoolNext(NextTimes(p, j - 1))

C31_DegradedIsIntermediate ==
    mon.status = MonDegraded =>
        0 < mon.failCount /\ mon.failCount < failThreshold

\* C31 as amended: a degraded Monitor has -recovery_threshold < c <
\* fail_threshold; the counter of a degraded Monitor goes down to zero and
\* below with successful checks until the Monitor recovers.
C31_DegradedRange ==
    mon.status = MonDegraded =>
        /\ -recoveryThreshold < mon.failCount
        /\ mon.failCount < failThreshold

\* Degraded with the counter at zero or below, after a success.
C31_Witness ==
    /\ mon.status = MonDegraded
    /\ mon.failCount <= 0
    /\ LastOf(hist) = "S"

\* C38: a healthy Monitor has c = 0, and c > -recovery_threshold in every
\* state (thresholds at least 1).
C38_CounterInvariant ==
    (failThreshold >= 1 /\ recoveryThreshold >= 1) =>
        /\ mon.status = MonHealthy => mon.failCount = 0
        /\ mon.failCount > -recoveryThreshold

\* Healthy again after a recovery that took the counter down to
\* 1 - recovery_threshold, more than one step below zero.
C38_Witness ==
    /\ mon.status = MonHealthy
    /\ mon.sentHealthy > 0
    /\ recoveryThreshold > 1
    /\ Len(hist) >= failThreshold + recoveryThreshold

\* ------------------------------------------- further claims on SpecScan
\* The successful probes of a scan, by position in the candidate list.
Succeeded(sc) == {i \in 1..Len(sc.addrs) : sc.outcome[i] = "ok"}

\* C32: a scan calls the prober at most once per candidate; every address in
\* the pool is a candidate whose probe succeeded; every working result the
\* collector has taken is in the pool and healthy with the latency of a
\* probe; and when the scan has returned there is one result per candidate,
\* every successful probe is in the pool and the count returned is the
\* number of successful probes.
C32_ScanUpdatesPool ==
    /\ \A i \in 1..Len(scan.addrs) : scan.probes[i] <= 1
    /\ \A i \in 1..Len(scan.addrs) :
           scan.outcome[i] \in {"ok", "failed"} => scan.probes[i] = 1
    /\ \A a \in Addrs :
           HasAddr(pool, a) => \E i \in Succeeded(scan) : scan.addrs[i] = a
    /\ \A j \in 1..Len(scan.results) :
           scan.results[j].working =>
               /\ HasAddr(pool, scan.results[j].addr)
               /\ StatusOf(pool, scan.results[j].addr) = StatusHealthy
               /\ \E k \in 1..Len(scan.results) :
                      /\ scan.results[k].working
                      /\ scan.results[k].addr = scan.results[j].addr
                      /\ pool.resolvers[IndexOf(pool.resolvers, scan.results[j].addr)].latency
                            = scan.results[k].latency
    /\ scan.returned =>
           /\ Len(scan.results) = Len(scan.addrs)
           /\ scan.count = Cardinality(Succeeded(scan))
           /\ \A i \in Succeeded(scan) : HasAddr(pool, scan.addrs[i])
           /\ Count(pool) = Cardinality({scan.addrs[i] : i \in Succeeded(scan)})

\* A returned scan with a successful probe, a failed probe of another
\* address, and a count of at least one.
C32_Witness ==
    /\ scan.returned
    /\ scan.count >= 1
    /\ \E i, j \in 1..Len(scan.addrs) :
           /\ scan.outcome[i] = "ok"
           /\ scan.outcome[j] = "failed"
           /\ scan.addrs[i] # scan.addrs[j]
           /\ ~HasAddr(pool, scan.addrs[j])

\* C33: a scan always returns, with one result per candidate, whether or not
\* the context is cancelled while it runs.
C33_ScanTerminates ==
    <>(scan.returned /\ Len(scan.results) = Len(scan.addrs))

\* ------------------------------------------- further claims on SpecManager
\* C34: the on_disconnect slot never holds more than one event; the wait
\* goroutine of a child that has exited can always take its step (its send
\* does not wait for a receiver); and when it has, the slot is full, whether
\* it was empty or already full before.
C34_OneSlotDisconnect ==
    [][/\ mgr.disconnectCh <= ChanCap
       /\ mgr'.disconnectCh <= ChanCap
       /\ \A p \in Pids :
              /\ child[p] = "dead" => ENABLED ChildReaped(p)
              /\ (child[p] = "dead" /\ child'[p] = "free") =>
                     /\ mgr'.disconnectCh = ChanCap
                     /\ mgr'.disconnectCh >= mgr.disconnectCh]_vars

\* The slot is full and undrained, one more child has exited and a third
\* process has been spawned since: the next exit finds the slot full.
C34_Witness ==
    /\ mgr.disconnectCh = ChanCap
    /\ \E p, q \in Pids : p # q /\ child[p] = "dead" /\ child[q] # "free"

\* ------------------------------------------------- claims on SpecCancel
\* C35: once the shutdown path has cancelled the context, the event loop
\* and the Monitor loop eventually exit and Shutdown eventually returns.
C35_ShutdownCompletes ==
    ctxDone ~> (main = "done" /\ orch.pc = "exited" /\ monitor.pc = "exited")

\* ------------------------------------------- further claims on SpecPool
\* C36: mark_failed and mark_healthy applied to a resolver whose status is
\* blocked leave its status blocked.
C36_BlockedStaysBlocked ==
    \A a \in Addrs :
        StatusOf(pool, a) = StatusBlocked =>
            /\ StatusOf(MarkFailed(pool, a), a) = StatusBlocked
            /\ \A l \in 1..MaxLatency :
                   StatusOf(MarkHealthy(pool, a, l), a) = StatusBlocked

\* ------------------------------------------------- further claims on Spec
\* C37: whenever the reconnect routine calls Connect, the resolver it passes
\* is not blocked in the pool at that moment.
C37_ConnectsNonBlocked ==
    [][(orch.pc = "hd_connect" /\ orch'.pc # "hd_connect")
          => StatusOf(pool, orch.next) # StatusBlocked]_vars

\* ------------------------------------------------- claims on SpecVerdict
\* The message of a reply as the prober gets it: a datagram, an HTTP body,
\* or the declared bytes of a TLS stream once they have all arrived.
Complete(x) ==
    /\ x.fate = "reply"
    /\ x.transport = "dot" => x.sent >= x.declared

ResponseLen(x) == IF x.transport = "dot" THEN x.declared ELSE x.sent

\* C39: a probe accepts exactly the replies of at least 12 bytes whose QR
\* bit is set (over HTTPS with status 200, over TLS with a declared length
\* of 12 to 4096), and the verdict is the same whatever the RCODE byte and
\* the number of answers of the reply.
C39_VerdictIsWellFormedness ==
    dns.out # "none" =>
        /\ dns.out = "ok" <=>
               /\ Complete(dns.in)
               /\ ResponseLen(dns.in) >= 12
               /\ dns.in.b2 >= 128
               /\ dns.in.transport = "doh" => dns.in.status = 200
               /\ dns.in.transport = "dot" => dns.in.declared <= 4096
        /\ \A r \in RcodeBytes, k \in 0..1 :
               TestResolver([dns.in EXCEPT !.b3 = r, !.answers = k]) = dns.out

\* A reply with RCODE NXDOMAIN and no answer record is accepted.
C39_Witness ==
    /\ dns.out = "ok"
    /\ dns.in.b3 % 16 = 3
    /\ dns.in.answers = 0

=============================================================================
